---- MODULE Spec2Model ----
(***************************************************************************)
(* Model of the BrInfo runtime tracer (src/src/runtime/Runtime.cpp).       *)
(*                                                                         *)
(* The tracer keeps process-wide state (the once flag, the log stream, the *)
(* file mutex, two id counters) and thread-local state (current test, the  *)
(* invocation stack, the in-assertion flag, the segment counter).  Every   *)
(* public entry point is modelled as a function from the state it may      *)
(* touch to the new state plus the events it writes.                       *)
(*                                                                         *)
(* Two specifications drive those functions:                               *)
(*   Spec    one thread, each call is one atomic step;                     *)
(*   SpecMT  two threads, each call split at the once-guard, the mutex     *)
(*           acquisition, the start and the end of the written line, and   *)
(*           the return.                                                   *)
(***************************************************************************)
EXTENDS Integers, Sequences, FiniteSets, TLC

VARIABLES
    once,             \* InitOnce(): "new", "running" or "done"
    guard,            \* history: "never" entered, the "first" call is inside DoInit, or "later"
    logFile,          \* LogFile(): [isOpen, path, opens]
    env,              \* getenv("BRINFO_TRACE_PATH"): <<>> (unset) or <<value>>
    mutex,            \* FileMutex(): the holder, or NoThread
    file,             \* what was written to the log stream, in pieces
    flushed,          \* how many pieces of file have been flushed
    NextTestId,       \* process-wide atomic
    NextInvocationId, \* process-wide atomic
    TLTest,           \* per thread: <<>> (null) or <<TestCtx>>
    TLInvStack,       \* per thread: sequence of InvocationFrame
    TLInAssertion,    \* per thread
    TLSegmentId,      \* per thread
    pc,               \* per thread: position inside the current call
    call,             \* per thread: the call in progress, or the last one made
    ret,              \* per thread: <<>> or <<value returned by the last LogCond>>
    exc,              \* per thread: the call in progress, or the last one, left by an exception
    ncalls,           \* per thread: calls entered so far (SpecMT only)
    assertEndCalls,   \* history, per thread: AssertionEnd calls since the last BeginTest/EndTest call
    openAsserts,      \* history, per thread: AssertionBegin calls of the test not yet matched by an AssertionEnd
    Conditions,       \* MetaCollector::Conditions
    Functions,        \* MetaCollector::Functions
    Chains,           \* MetaCollector::Chains
    ConditionKey2Id,  \* MetaCollector::ConditionKey2Id
    FuncHash2Id,      \* MetaCollector::FuncHash2Id
    sightings,        \* history: the conditions looked up, each with the id it resolved to
    recorded,         \* history: the inputs of the recordFunction calls, in order
    source,           \* the translation unit given to the instrumenter; <<>> before
    rewritten,        \* what the instrumenter made of it
    executed,         \* <<>> or the last condition executed, original and instrumented
    lastLine,         \* the text of the line an event writer wrote; <<>> before
    testFile,         \* the file given to the call wrapper and its options; <<>> before
    wrappedFile,      \* what the call wrapper made of it
    evals,            \* per thread: the BRINFO_CALL evaluations in progress, innermost last
    finished          \* history: <<>> or the last BRINFO_CALL evaluation that ended

vars == <<once, guard, logFile, env, mutex, file, flushed, NextTestId,
          NextInvocationId, TLTest, TLInvStack, TLInAssertion, TLSegmentId,
          pc, call, ret, exc, ncalls, assertEndCalls, openAsserts,
          Conditions, Functions, Chains, ConditionKey2Id, FuncHash2Id,
          sightings, recorded, source, rewritten, executed, lastLine,
          testFile, wrappedFile, evals, finished>>

\* The state of the tracer, of the static pass, of the instrumenter and of
\* the parts around them.
runtimeVars == <<once, guard, logFile, env, mutex, file, flushed, NextTestId,
                 NextInvocationId, TLTest, TLInvStack, TLInAssertion, TLSegmentId,
                 pc, call, ret, exc, ncalls, assertEndCalls, openAsserts>>
staticVars == <<Conditions, Functions, Chains, ConditionKey2Id, FuncHash2Id,
                sightings, recorded>>
instrVars == <<source, rewritten, executed>>
toolVars == <<lastLine, testFile, wrappedFile>>
macroVars == <<evals, finished>>
supportVars == <<toolVars, macroVars>>

----------------------------------------------------------------------------
(* Bounds of the model. *)

\* Spec: no call is made once the log holds this many events.
MaxLog == 4
\* AssertionEnd is not called once it was called this often since the last BeginTest/EndTest.
MaxSeg == 1
\* BeginInvocation is not called once the top frame is this deep.
MaxDepth == 2
\* SpecMT: the threads make at most this many calls in total.
MaxCallsMT == 3
\* SpecIds: the threads make at most this many calls in total.
MaxCallsIds == 4
\* SpecMeta: recordFunction is called at most this often.
MaxRecords == 2

Threads == {"t1", "t2"}
MainThread == {"t1"}
NoThread == "none"

\* A path is the sequence of its components; a const char* is <<>> (null) or <<path>>.
NullPtr == <<>>
EmptyPath == <<>>
DefaultPath == <<"llm_reqs", "runtime.ndjson">>
EnvValues == {<<>>, <<<<"env.ndjson">>>>, <<<<"logs", "env.ndjson">>>>}
PathArgs == {NullPtr, <<EmptyPath>>, <<<<"arg.ndjson">>>>, <<<<"out", "arg.ndjson">>>>}

----------------------------------------------------------------------------
(* Log initialisation. *)

\* std::filesystem::path::parent_path of a relative path.
ParentPath(p) == SubSeq(p, 1, Len(p) - 1)

\* std::filesystem::create_directories(p) reports invalid_argument for an
\* empty p, and the overload without error_code throws filesystem_error.
CreateDirectoriesThrows(p) == p = EmptyPath

\* std::ofstream::open on a closed stream; the model counts the calls.
LogFileOpen(f, p) ==
    IF f.isOpen THEN [f EXCEPT !.opens = @ + 1]
    ELSE [isOpen |-> TRUE, path |-> p, opens |-> f.opens + 1]

\* DoInit's choice of path: argument, else environment, else default.
ResolvePath(path, e) ==
    IF path # NullPtr /\ path[1] # EmptyPath THEN path[1]
    ELSE IF e # <<>> THEN e[1]
    ELSE DefaultPath

\* What DoInit does to the stream f, and whether it leaves by an exception.
DoInit(path, e, f) ==
    LET p == ResolvePath(path, e)
    IN  IF CreateDirectoriesThrows(ParentPath(p))
          THEN [threw |-> TRUE, f |-> f]
          ELSE [threw |-> FALSE, f |-> LogFileOpen(f, p)]

\* The argument a call hands to DoInit through call_once.
OnceArg(c) == IF c.op = "Init" THEN c.path ELSE NullPtr

----------------------------------------------------------------------------
(* Event writers: the fields of each line that the claims read. *)

EmitTestStart(T) == [type |-> "test_start", test_id |-> T.id]

EmitTestEnd(T) == [type |-> "test_end", test_id |-> T.id]

EmitAssertion(testId, assertId) ==
    [type |-> "assertion", test_id |-> testId, assert_id |-> assertId]

EmitInvocationStart(F) ==
    [type |-> "invocation_start", test_id |-> F.testId, invocation_id |-> F.id,
     index |-> F.index, segment_id |-> F.segmentId,
     in_oracle |-> IF F.inOracle THEN 1 ELSE 0]

EmitInvocationEnd(F) ==
    [type |-> "invocation_end", test_id |-> F.testId, invocation_id |-> F.id,
     segment_id |-> F.segmentId]

WriteJson(s, value) ==
    (IF s.TLTest # <<>> THEN [test_id |-> s.TLTest[1].id] ELSE <<>>)
    @@ (IF s.TLInvStack # <<>>
          THEN [invocation_id |-> s.TLInvStack[Len(s.TLInvStack)].id] ELSE <<>>)
    @@ [type |-> "cond", val |-> IF value THEN 1 ELSE 0]

----------------------------------------------------------------------------
(* Public APIs, as functions of the state a call can touch.  s.out is the  *)
(* sequence of events the call writes, s.ret what it returns.              *)

Ctx(t) ==
    [TLTest |-> TLTest[t], TLInvStack |-> TLInvStack[t],
     TLInAssertion |-> TLInAssertion[t], TLSegmentId |-> TLSegmentId[t],
     NextTestId |-> NextTestId, NextInvocationId |-> NextInvocationId,
     out |-> <<>>, ret |-> <<>>]

Back(stk) == stk[Len(stk)]
PopBack(stk) == SubSeq(stk, 1, Len(stk) - 1)
SetBackDepth(stk, d) == [stk EXCEPT ![Len(stk)].depth = d]

\* BeginTest that reads the id counter and leaves it as it is.
BeginTestReuseId(s) ==
    LET T == [id |-> s.NextTestId, nextAssertId |-> 0, nextInvocationIndex |-> 0]
    IN  [s EXCEPT !.TLTest = <<T>>, !.TLSegmentId = 0,
                  !.TLInAssertion = FALSE, !.out = <<EmitTestStart(T)>>]

BeginTest(s) ==
    LET T == [id |-> s.NextTestId, nextAssertId |-> 0, nextInvocationIndex |-> 0]
    IN  [s EXCEPT !.TLTest = <<T>>, !.NextTestId = @ + 1, !.TLSegmentId = 0,
                  !.TLInAssertion = FALSE, !.out = <<EmitTestStart(T)>>]

\* EndTest that leaves the invocation stack alone.
EndTestKeepStack(s) ==
    IF s.TLTest # <<>>
      THEN [s EXCEPT !.out = <<EmitTestEnd(s.TLTest[1])>>, !.TLTest = <<>>,
                     !.TLInAssertion = FALSE, !.TLSegmentId = 0]
      ELSE s

EndTest(s) ==
    IF s.TLTest # <<>>
      THEN [s EXCEPT !.out = <<EmitTestEnd(s.TLTest[1])>>, !.TLTest = <<>>,
                     !.TLInvStack = <<>>, !.TLInAssertion = FALSE, !.TLSegmentId = 0]
      ELSE s

\* AssertionBegin that raises the flag before it looks for the test.
AssertionBeginFlagFirst(s) ==
    IF s.TLTest = <<>> THEN [s EXCEPT !.TLInAssertion = TRUE]
    ELSE [s EXCEPT !.TLInAssertion = TRUE,
                   !.TLTest[1].nextAssertId = @ + 1,
                   !.out = <<EmitAssertion(s.TLTest[1].id, s.TLTest[1].nextAssertId)>>]

AssertionBegin(s) ==
    IF s.TLTest = <<>> THEN s
    ELSE [s EXCEPT !.TLInAssertion = TRUE,
                   !.TLTest[1].nextAssertId = @ + 1,
                   !.out = <<EmitAssertion(s.TLTest[1].id, s.TLTest[1].nextAssertId)>>]

\* AssertionEnd that clears the flag and forgets to move to the next segment.
AssertionEndSameSegment(s) ==
    IF s.TLTest = <<>> THEN s
    ELSE [s EXCEPT !.TLInAssertion = FALSE]

AssertionEnd(s) ==
    IF s.TLTest = <<>> THEN s
    ELSE [s EXCEPT !.TLInAssertion = FALSE, !.TLSegmentId = @ + 1]

NewFrame(s) ==
    [id |-> s.NextInvocationId, index |-> s.TLTest[1].nextInvocationIndex,
     testId |-> s.TLTest[1].id, depth |-> 1,
     segmentId |-> s.TLSegmentId, inOracle |-> s.TLInAssertion]

\* BeginInvocation that pushes and reports a frame of its own at every depth.
BeginInvocationAlwaysPush(s) ==
    IF s.TLTest = <<>> THEN s
    ELSE LET F == NewFrame(s)
         IN  [s EXCEPT !.NextInvocationId = @ + 1,
                       !.TLTest[1].nextInvocationIndex = @ + 1,
                       !.TLInvStack = Append(@, F),
                       !.out = <<EmitInvocationStart(F)>>]

\* BeginInvocation that pushes a silent frame with a fresh id when nested.
BeginInvocationNestedFrame(s) ==
    IF s.TLTest = <<>> THEN s
    ELSE LET F == NewFrame(s)
         IN  IF s.TLInvStack # <<>>
               THEN [s EXCEPT !.NextInvocationId = @ + 1,
                              !.TLInvStack = Append(@, [F EXCEPT !.depth = Back(s.TLInvStack).depth + 1])]
               ELSE [s EXCEPT !.NextInvocationId = @ + 1,
                              !.TLTest[1].nextInvocationIndex = @ + 1,
                              !.TLInvStack = Append(@, F),
                              !.out = <<EmitInvocationStart(F)>>]

BeginInvocation(s) ==
    IF s.TLTest = <<>> THEN s
    ELSE IF s.TLInvStack # <<>>
      THEN [s EXCEPT !.TLInvStack = SetBackDepth(@, Back(@).depth + 1)]
      ELSE LET F == NewFrame(s)
           IN  [s EXCEPT !.NextInvocationId = @ + 1,
                         !.TLTest[1].nextInvocationIndex = @ + 1,
                         !.TLInvStack = Append(@, F),
                         !.out = <<EmitInvocationStart(F)>>]

\* EndInvocation that reports the segment the thread is in when the call ends.
EndInvocationCurrentSegment(s) ==
    IF s.TLInvStack = <<>> THEN s
    ELSE LET F == Back(s.TLInvStack)
         IN  IF F.depth > 1
               THEN [s EXCEPT !.TLInvStack = SetBackDepth(@, F.depth - 1)]
               ELSE [s EXCEPT !.out = <<EmitInvocationEnd([F EXCEPT !.segmentId = s.TLSegmentId])>>,
                              !.TLInvStack = PopBack(@)]

EndInvocation(s) ==
    IF s.TLInvStack = <<>> THEN s
    ELSE LET F == Back(s.TLInvStack)
         IN  IF F.depth > 1
               THEN [s EXCEPT !.TLInvStack = SetBackDepth(@, F.depth - 1)]
               ELSE [s EXCEPT !.out = <<EmitInvocationEnd(F)>>,
                              !.TLInvStack = PopBack(@)]

LogCond(s, value) ==
    [s EXCEPT !.out = <<WriteJson(s, value)>>, !.ret = <<value>>]

\* What the call c does to the state after the once-guard, under the mutex.
Handler(c, s) ==
    CASE c.op = "Init"            -> s
      [] c.op = "BeginTest"       -> BeginTest(s)
      [] c.op = "EndTest"         -> EndTest(s)
      [] c.op = "AssertionBegin"  -> AssertionBegin(s)
      [] c.op = "AssertionEnd"    -> AssertionEnd(s)
      [] c.op = "BeginInvocation" -> BeginInvocation(s)
      [] c.op = "EndInvocation"   -> EndInvocation(s)
      [] c.op = "LogCond"         -> LogCond(s, c.value)

----------------------------------------------------------------------------
(* The log stream.  A line is written in two pieces: everything up to the  *)
(* closing brace, then "}\n".                                              *)

LineOpen(t, e)  == [k |-> "open", thr |-> t, n |-> ncalls[t], ev |-> e]
LineClose(t)    == [k |-> "close", thr |-> t, n |-> ncalls[t]]
Line(t, out)    == IF out = <<>> THEN <<>> ELSE <<LineOpen(t, out[1]), LineClose(t)>>

IsOpenPiece(p)  == p.k = "open"
\* The events of the log, in file order, each tagged with its writer.
Events(f) ==
    LET opens == SelectSeq(f, IsOpenPiece)
    IN  [i \in 1..Len(opens) |-> opens[i].ev @@ [thr |-> opens[i].thr]]

\* Process-wide context instead of thread_local: a call writes the context of every thread.
CommitShared(t, r) ==
    /\ TLTest' = [u \in Threads |-> r.TLTest]
    /\ TLInvStack' = [u \in Threads |-> r.TLInvStack]
    /\ TLInAssertion' = [u \in Threads |-> r.TLInAssertion]
    /\ TLSegmentId' = [u \in Threads |-> r.TLSegmentId]
    /\ NextTestId' = r.NextTestId
    /\ NextInvocationId' = r.NextInvocationId
    /\ ret' = [ret EXCEPT ![t] = r.ret]

\* The state a call may change, written back.
Commit(t, r) ==
    /\ TLTest' = [TLTest EXCEPT ![t] = r.TLTest]
    /\ TLInvStack' = [TLInvStack EXCEPT ![t] = r.TLInvStack]
    /\ TLInAssertion' = [TLInAssertion EXCEPT ![t] = r.TLInAssertion]
    /\ TLSegmentId' = [TLSegmentId EXCEPT ![t] = r.TLSegmentId]
    /\ NextTestId' = r.NextTestId
    /\ NextInvocationId' = r.NextInvocationId
    /\ ret' = [ret EXCEPT ![t] = r.ret]

\* The history variables follow the calls, not the tracer's decisions.
History(t, c) ==
    /\ assertEndCalls' =
         [assertEndCalls EXCEPT ![t] =
            CASE c.op \in {"BeginTest", "EndTest"} -> 0
              [] c.op = "AssertionEnd" -> @ + 1
              [] OTHER -> @]
    /\ openAsserts' =
         [openAsserts EXCEPT ![t] =
            CASE c.op \in {"BeginTest", "EndTest"} -> 0
              [] c.op = "AssertionBegin" /\ TLTest[t] # <<>> -> @ + 1
              [] c.op = "AssertionEnd" /\ @ > 0 -> @ - 1
              [] OTHER -> @]

\* The calls the model makes from the state of thread t.
CallAllowed(t, c) ==
    /\ c.op = "AssertionEnd" => assertEndCalls[t] < MaxSeg
    /\ c.op = "BeginInvocation" =>
         (IF TLInvStack[t] = <<>> THEN TRUE ELSE Back(TLInvStack[t]).depth < MaxDepth)

----------------------------------------------------------------------------
(* Spec: one thread, one step per call.                                    *)

\* The call of a public API: its name and the one argument the model keeps.
NoArg == <<>>
Call(op, arg) ==
    CASE op = "Init"    -> [op |-> op, path |-> arg]
      [] op = "LogCond" -> [op |-> op, value |-> arg]
      [] OTHER          -> [op |-> op]

Perform(t, op, arg) ==
    LET c == Call(op, arg)
    IN  /\ pc[t] = "idle"
        /\ mutex = NoThread
        /\ LET d     == DoInit(OnceArg(c), env, logFile)
               threw == once = "new" /\ d.threw
               r     == IF threw THEN Ctx(t) ELSE Handler(c, Ctx(t))
           IN  /\ IF once = "new"
                    THEN /\ once' = IF d.threw THEN "new" ELSE "done"
                         /\ guard' = "later"
                         /\ logFile' = d.f
                    ELSE UNCHANGED <<once, guard, logFile>>
               /\ exc' = [exc EXCEPT ![t] = threw]
               /\ Commit(t, r)
               /\ file' = file \o Line(t, r.out)
               /\ flushed' = IF r.out = <<>> THEN flushed ELSE Len(file) + 2
        /\ call' = [call EXCEPT ![t] = c]
        /\ History(t, c)
        /\ UNCHANGED <<staticVars, instrVars, toolVars, env, mutex, pc, ncalls>>

\* A call made by the test program itself, within the bounds of the model.
Run(t, op, arg) ==
    /\ Len(Events(file)) < MaxLog
    /\ CallAllowed(t, Call(op, arg))
    /\ Perform(t, op, arg)
    /\ UNCHANGED macroVars

CallInit(t) == \E p \in PathArgs : Run(t, "Init", p)
CallBeginTest(t) == Run(t, "BeginTest", NoArg)
CallEndTest(t) == Run(t, "EndTest", NoArg)
CallAssertionBegin(t) == Run(t, "AssertionBegin", NoArg)
CallAssertionEnd(t) == Run(t, "AssertionEnd", NoArg)
CallBeginInvocation(t) == Run(t, "BeginInvocation", NoArg)
CallEndInvocation(t) == Run(t, "EndInvocation", NoArg)
CallLogCond(t) == \E v \in BOOLEAN : Run(t, "LogCond", v)

Init ==
    /\ once = "new"
    /\ guard = "never"
    /\ logFile = [isOpen |-> FALSE, path |-> EmptyPath, opens |-> 0]
    /\ env \in EnvValues
    /\ mutex = NoThread
    /\ file = <<>>
    /\ flushed = 0
    /\ NextTestId = 1
    /\ NextInvocationId = 1
    /\ TLTest = [t \in Threads |-> <<>>]
    /\ TLInvStack = [t \in Threads |-> <<>>]
    /\ TLInAssertion = [t \in Threads |-> FALSE]
    /\ TLSegmentId = [t \in Threads |-> 0]
    /\ pc = [t \in Threads |-> "idle"]
    /\ call = [t \in Threads |-> [op |-> "none"]]
    /\ ret = [t \in Threads |-> <<>>]
    /\ exc = [t \in Threads |-> FALSE]
    /\ ncalls = [t \in Threads |-> 0]
    /\ assertEndCalls = [t \in Threads |-> 0]
    /\ openAsserts = [t \in Threads |-> 0]
    /\ Conditions = <<>>
    /\ Functions = <<>>
    /\ Chains = <<>>
    /\ ConditionKey2Id = <<>>
    /\ FuncHash2Id = <<>>
    /\ sightings = {}
    /\ recorded = <<>>
    /\ source = <<>>
    /\ rewritten = <<>>
    /\ executed = <<>>
    /\ lastLine = <<>>
    /\ testFile = <<>>
    /\ wrappedFile = <<>>
    /\ evals = [t \in Threads |-> <<>>]
    /\ finished = <<>>

Next ==
    \E t \in MainThread :
        \/ CallInit(t)
        \/ CallBeginTest(t)
        \/ CallEndTest(t)
        \/ CallAssertionBegin(t)
        \/ CallAssertionEnd(t)
        \/ CallBeginInvocation(t)
        \/ CallEndInvocation(t)
        \/ CallLogCond(t)

Spec == Init /\ [][Next]_vars

----------------------------------------------------------------------------
(* SpecMT: two threads; a call is split where another thread can run.      *)
(*   idle -> once -> (init) -> lock -> cs -> (line) -> ret -> idle         *)
(* Init(path) has no body: it goes from the once-guard to ret.             *)

AfterOnce(c) == IF c.op = "Init" THEN "ret" ELSE "lock"

\* A mutex that excludes nobody.
MutexNeverHeld(m) == TRUE

\* std::lock_guard<std::mutex> can take the mutex when nobody holds it.
MutexFree(m) == m = NoThread

\* std::call_once runs the callable for the caller that finds the flag new.
OnceClaimable(o) == o = "new"

\* The call enters: the arguments are fixed, nothing of the tracer has run.
EnterUpTo(t, op, arg, n) ==
    LET c == Call(op, arg)
    IN  /\ pc[t] = "idle"
        /\ ncalls["t1"] + ncalls["t2"] < n
        /\ CallAllowed(t, c)
        /\ pc' = [pc EXCEPT ![t] = "once"]
        /\ call' = [call EXCEPT ![t] = c]
        /\ ncalls' = [ncalls EXCEPT ![t] = @ + 1]
        /\ exc' = [exc EXCEPT ![t] = FALSE]
        /\ History(t, c)
        /\ UNCHANGED <<staticVars, instrVars, supportVars, once, guard, logFile, env, mutex, file, flushed, NextTestId,
                       NextInvocationId, TLTest, TLInvStack, TLInAssertion, TLSegmentId, ret>>

Enter(t, op, arg) == EnterUpTo(t, op, arg, MaxCallsMT)

EnterInit(t) == \E p \in PathArgs : Enter(t, "Init", p)
EnterBeginTest(t) == Enter(t, "BeginTest", NoArg)
EnterEndTest(t) == Enter(t, "EndTest", NoArg)
EnterAssertionBegin(t) == Enter(t, "AssertionBegin", NoArg)
EnterAssertionEnd(t) == Enter(t, "AssertionEnd", NoArg)
EnterBeginInvocation(t) == Enter(t, "BeginInvocation", NoArg)
EnterEndInvocation(t) == Enter(t, "EndInvocation", NoArg)
EnterLogCond(t) == \E v \in BOOLEAN : Enter(t, "LogCond", v)

\* std::call_once, flag already set: pass.
OncePass(t) ==
    /\ pc[t] = "once"
    /\ once = "done"
    /\ pc' = [pc EXCEPT ![t] = AfterOnce(call[t])]
    /\ UNCHANGED <<staticVars, instrVars, supportVars, once, guard, logFile, env, mutex, file, flushed, NextTestId,
                   NextInvocationId, TLTest, TLInvStack, TLInAssertion, TLSegmentId,
                   call, ret, exc, ncalls, assertEndCalls, openAsserts>>

\* std::call_once, flag new: this caller runs DoInit; the others wait at "once".
OnceClaim(t) ==
    /\ pc[t] = "once"
    /\ OnceClaimable(once)
    /\ once' = "running"
    /\ guard' = IF guard = "never" THEN "first" ELSE guard
    /\ pc' = [pc EXCEPT ![t] = "init"]
    /\ UNCHANGED <<staticVars, instrVars, supportVars, logFile, env, mutex, file, flushed, NextTestId,
                   NextInvocationId, TLTest, TLInvStack, TLInAssertion, TLSegmentId,
                   call, ret, exc, ncalls, assertEndCalls, openAsserts>>

\* DoInit runs: at its end the flag is set; if it throws, the flag is new
\* again, the exception leaves the entry point and its body never runs.
RunDoInit(t) ==
    /\ pc[t] = "init"
    /\ LET d == DoInit(OnceArg(call[t]), env, logFile)
       IN  /\ logFile' = d.f
           /\ once' = IF d.threw THEN "new" ELSE "done"
           /\ exc' = [exc EXCEPT ![t] = d.threw]
           /\ pc' = [pc EXCEPT ![t] = IF d.threw THEN "ret" ELSE AfterOnce(call[t])]
    /\ guard' = "later"
    /\ UNCHANGED <<staticVars, instrVars, supportVars, env, mutex, file, flushed, NextTestId,
                   NextInvocationId, TLTest, TLInvStack, TLInAssertion, TLSegmentId,
                   call, ret, ncalls, assertEndCalls, openAsserts>>

\* std::lock_guard's constructor.
Lock(t) ==
    /\ pc[t] = "lock"
    /\ MutexFree(mutex)
    /\ mutex' = t
    /\ pc' = [pc EXCEPT ![t] = "cs"]
    /\ UNCHANGED <<staticVars, instrVars, supportVars, once, guard, logFile, env, file, flushed, NextTestId,
                   NextInvocationId, TLTest, TLInvStack, TLInAssertion, TLSegmentId,
                   call, ret, exc, ncalls, assertEndCalls, openAsserts>>

\* The body up to and including the first write of its line, if it writes one.
Body(t) ==
    /\ pc[t] = "cs"
    /\ LET r == Handler(call[t], Ctx(t))
       IN  /\ Commit(t, r)
           /\ IF r.out = <<>>
                THEN /\ file' = file
                     /\ pc' = [pc EXCEPT ![t] = "ret"]
                ELSE /\ file' = Append(file, LineOpen(t, r.out[1]))
                     /\ pc' = [pc EXCEPT ![t] = "line"]
    /\ UNCHANGED <<staticVars, instrVars, supportVars, once, guard, logFile, env, mutex, flushed,
                   call, exc, ncalls, assertEndCalls, openAsserts>>

\* The closing "}\n" of the line, then LogFile().flush().
LineEnd(t) ==
    /\ pc[t] = "line"
    /\ file' = Append(file, LineClose(t))
    /\ flushed' = Len(file) + 1
    /\ pc' = [pc EXCEPT ![t] = "ret"]
    /\ UNCHANGED <<staticVars, instrVars, supportVars, once, guard, logFile, env, mutex, NextTestId,
                   NextInvocationId, TLTest, TLInvStack, TLInAssertion, TLSegmentId,
                   call, ret, exc, ncalls, assertEndCalls, openAsserts>>

\* A return that leaves the mutex locked.
ReturnKeepsMutex(t) ==
    /\ pc[t] = "ret"
    /\ mutex' = mutex
    /\ pc' = [pc EXCEPT ![t] = "idle"]
    /\ UNCHANGED <<staticVars, instrVars, supportVars, once, guard, logFile, env, file, flushed, NextTestId,
                   NextInvocationId, TLTest, TLInvStack, TLInAssertion, TLSegmentId,
                   call, ret, exc, ncalls, assertEndCalls, openAsserts>>

\* The call returns; std::lock_guard's destructor releases the mutex if held.
Return(t) ==
    /\ pc[t] = "ret"
    /\ mutex' = IF mutex = t THEN NoThread ELSE mutex
    /\ pc' = [pc EXCEPT ![t] = "idle"]
    /\ UNCHANGED <<staticVars, instrVars, supportVars, once, guard, logFile, env, file, flushed, NextTestId,
                   NextInvocationId, TLTest, TLInvStack, TLInAssertion, TLSegmentId,
                   call, ret, exc, ncalls, assertEndCalls, openAsserts>>

NextMT ==
    \E t \in Threads :
        \/ EnterInit(t)
        \/ EnterBeginTest(t)
        \/ EnterEndTest(t)
        \/ EnterAssertionBegin(t)
        \/ EnterAssertionEnd(t)
        \/ EnterBeginInvocation(t)
        \/ EnterEndInvocation(t)
        \/ EnterLogCond(t)
        \/ OncePass(t)
        \/ OnceClaim(t)
        \/ RunDoInit(t)
        \/ Lock(t)
        \/ Body(t)
        \/ LineEnd(t)
        \/ Return(t)

SpecMT == Init /\ [][NextMT]_vars

----------------------------------------------------------------------------
(* SpecFair: the two threads of SpecMT under fair scheduling.              *)

\* Calls made in a run of SpecFair.
MaxCallsFair == 2

\* Any public API is called.
FairEnter(t) ==
    \/ \E p \in PathArgs : EnterUpTo(t, "Init", p, MaxCallsFair)
    \/ \E op \in {"BeginTest", "EndTest", "AssertionBegin", "AssertionEnd",
                   "BeginInvocation", "EndInvocation"} :
          EnterUpTo(t, op, NoArg, MaxCallsFair)
    \/ \E v \in BOOLEAN : EnterUpTo(t, "LogCond", v, MaxCallsFair)

\* The steps of a call that is under way and waits for nobody.
Proceed(t) ==
    \/ OncePass(t)
    \/ RunDoInit(t)
    \/ Body(t)
    \/ LineEnd(t)
    \/ Return(t)

\* The steps at which a call can wait for another thread.
Acquire(t) == Lock(t) \/ OnceClaim(t)

NextFair == \E t \in Threads : FairEnter(t) \/ Proceed(t) \/ Acquire(t)

\* Fair scheduling: a thread that can take a step of its call takes one;
\* a thread that again and again finds the mutex free, or the once flag
\* new, gets it.
FairMT == \A t \in Threads : WF_vars(Proceed(t)) /\ SF_vars(Acquire(t))

SpecFair == Init /\ [][NextFair]_vars /\ FairMT

----------------------------------------------------------------------------
(* SpecIds: two threads, split as in SpecMT, making only the calls that    *)
(* draw or release ids, one call more than SpecMT allows.                  *)

IdsBeginTest(t) == EnterUpTo(t, "BeginTest", NoArg, MaxCallsIds)
IdsBeginInvocation(t) == EnterUpTo(t, "BeginInvocation", NoArg, MaxCallsIds)
IdsEndInvocation(t) == EnterUpTo(t, "EndInvocation", NoArg, MaxCallsIds)

NextIds ==
    \E t \in Threads :
        \/ IdsBeginTest(t)
        \/ IdsBeginInvocation(t)
        \/ IdsEndInvocation(t)
        \/ OncePass(t)
        \/ OnceClaim(t)
        \/ RunDoInit(t)
        \/ Lock(t)
        \/ Body(t)
        \/ LineEnd(t)
        \/ Return(t)

SpecIds == Init /\ [][NextIds]_vars

----------------------------------------------------------------------------
(* 64-bit unsigned arithmetic (uint64_t).  A value is its eight bytes,     *)
(* least significant first; every operation is taken modulo 2^64.          *)

Byte == 256
U64Bytes == 8

U64Zero == [i \in 1..U64Bytes |-> 0]

\* The bytes of the running sums raw[1..8], carries propagated, the last carry dropped.
RECURSIVE Carry(_, _, _)
Carry(raw, i, c) ==
    IF i > U64Bytes THEN <<>>
    ELSE LET s == raw[i] + c
         IN  <<s % Byte>> \o Carry(raw, i + 1, s \div Byte)

\* (uint64_t) n, for an n that fits an int.
RECURSIVE U64From(_, _)
U64From(n, i) == IF i > U64Bytes THEN <<>> ELSE <<n % Byte>> \o U64From(n \div Byte, i + 1)
U64(n) == U64From(n, 1)

RECURSIVE SumProducts(_, _, _, _)
SumProducts(a, b, k, i) ==
    IF i > k THEN 0 ELSE a[i] * b[k - i + 1] + SumProducts(a, b, k, i + 1)

\* a * b
MulU64(a, b) == Carry([k \in 1..U64Bytes |-> SumProducts(a, b, k, 1)], 1, 0)

\* a + b
AddU64(a, b) == Carry([k \in 1..U64Bytes |-> a[k] + b[k]], 1, 0)

RECURSIVE XorBits(_, _, _)
XorBits(x, y, n) ==
    IF n = 0 THEN 0
    ELSE (IF x % 2 = y % 2 THEN 0 ELSE 1) + 2 * XorBits(x \div 2, y \div 2, n - 1)

\* a ^ b
RECURSIVE XorFrom(_, _, _)
XorFrom(a, b, i) ==
    IF i > U64Bytes THEN <<>> ELSE <<XorBits(a[i], b[i], 8)>> \o XorFrom(a, b, i + 1)
XorU64(a, b) == XorFrom(a, b, 1)

\* A loop evaluates its accumulator at every iteration: the test acc = <<>>,
\* never true of a 64-bit value, makes the evaluation happen there.
\* The value of an integer literal, from its digits in the given base.
RECURSIVE Literal(_, _, _)
Literal(digits, base, acc) ==
    IF digits = <<>> \/ acc = <<>> THEN acc
    ELSE Literal(Tail(digits), base, AddU64(MulU64(acc, U64(base)), U64(Head(digits))))

Decimal(digits) == Literal(digits, 10, U64Zero)

----------------------------------------------------------------------------
(* Strings and hashing.  A std::string is the sequence of its characters;  *)
(* the hash reads their codes.                                             *)

Chars == <<" ", "!", "#", "(", ")", "0", "1", "2", "3", "4", "5", "6", "7", "8", "9",
           ":", "<", "=", ">", "a", "b", "c", "f", "g", "i", "n", "p", "t", "x", ".", "d", "e",
           "&", "|", "?", "S", "m", ",", "\"", "\\", "\n">>
Codes == <<32, 33, 35, 40, 41, 48, 49, 50, 51, 52, 53, 54, 55, 56, 57,
           58, 60, 61, 62, 97, 98, 99, 102, 103, 105, 110, 112, 116, 120, 46, 100, 101,
           38, 124, 63, 83, 109, 44, 34, 92, 10>>

\* (uint8_t) of a character.
CodeOf(ch) == Codes[CHOOSE i \in 1..Len(Chars) : Chars[i] = ch]

\* std::to_string of an unsigned.
RECURSIVE to_string(_)
to_string(n) ==
    IF n < 10 THEN <<Chars[6 + n]>> ELSE to_string(n \div 10) \o <<Chars[6 + (n % 10)]>>

FNV_OFFSET == Decimal(<<1, 4, 6, 9, 5, 9, 8, 1, 0, 3, 9, 3, 4, 6, 6, 5, 6, 0, 3>>)
FNV_PRIME == Decimal(<<1, 0, 9, 9, 5, 1, 1, 6, 2, 8, 2, 1, 1>>)

\* BrInfo::hash64 is declared in brinfo/Utils.h; it is the hash H of the
\* specification: FNV-1a-64 with offset 0xcbf29ce484222325 and prime
\* 0x100000001b3 over the bytes of the string.
H_OFFSET == Literal(<<12, 11, 15, 2, 9, 12, 14, 4, 8, 4, 2, 2, 2, 3, 2, 5>>, 16, U64Zero)
H_PRIME == Literal(<<1, 0, 0, 0, 0, 0, 0, 0, 1, 11, 3>>, 16, U64Zero)

RECURSIVE hash64From(_, _, _)
hash64From(H, S, i) ==
    IF i > Len(S) \/ H = <<>> THEN H
    ELSE hash64From(MulU64(XorU64(H, U64(CodeOf(S[i]))), H_PRIME), S, i + 1)

hash64(S) == hash64From(H_OFFSET, S, 1)

----------------------------------------------------------------------------
(* The static Meta-Collector (src/src/core/Meta.cpp).  The tables are      *)
(* passed around as one record m; m.seen is the history of the sightings   *)
(* (file, line, cond_norm) with the id each resolved to.                   *)

rollingHashStep(H, P) ==
    LET Mixed == U64(2 * P[1] + (IF P[2] THEN 1 ELSE 0))
    IN  MulU64(XorU64(H, Mixed), FNV_PRIME)

RECURSIVE rollingHashFrom(_, _, _)
rollingHashFrom(H, Sq, i) ==
    IF i > Len(Sq) \/ H = <<>> THEN H
    ELSE rollingHashFrom(rollingHashStep(H, Sq[i]), Sq, i + 1)

rollingHash(Sq) == rollingHashFrom(FNV_OFFSET, Sq, 1)

returnHash(Str) == IF Str = <<>> THEN U64Zero ELSE hash64(Str)

conditionHash(File, LineNo, Cond) ==
    hash64(File \o <<":">> \o to_string(LineNo) \o <<":">> \o Cond)

\* getOrCreateConditionId that never looks the key up.
getOrCreateConditionIdNoLookup(m, File, LineNo, CondNorm, Kind) ==
    LET Key   == File \o <<"#">> \o to_string(LineNo) \o <<"#">> \o CondNorm
        NewId == Len(m.Conditions)
        Meta  == [Id |-> NewId, File |-> File, Line |-> LineNo, CondNorm |-> CondNorm,
                  Kind |-> Kind, Hash |-> conditionHash(File, LineNo, CondNorm)]
    IN  [m  |-> [m EXCEPT !.Conditions = Append(@, Meta),
                          !.ConditionKey2Id = (Key :> NewId) @@ @],
         id |-> NewId]

getOrCreateConditionId(m, File, LineNo, CondNorm, Kind) ==
    LET Key   == File \o <<"#">> \o to_string(LineNo) \o <<"#">> \o CondNorm
        NewId == Len(m.Conditions)
        Meta  == [Id |-> NewId, File |-> File, Line |-> LineNo, CondNorm |-> CondNorm,
                  Kind |-> Kind, Hash |-> conditionHash(File, LineNo, CondNorm)]
    IN  IF Key \in DOMAIN m.ConditionKey2Id
          THEN [m |-> m, id |-> m.ConditionKey2Id[Key]]
          ELSE [m  |-> [m EXCEPT !.Conditions = Append(@, Meta),
                                 !.ConditionKey2Id = (Key :> NewId) @@ @],
                id |-> NewId]

getOrCreateFunctionId(m, FuncHash, Signature, Name, File) ==
    LET NewId == Len(m.Functions)
        F     == [FuncId |-> NewId, Signature |-> Signature, Name |-> Name, File |-> File,
                  FuncHash |-> FuncHash, ConditionIds |-> {}, Returns |-> <<>>]
    IN  IF FuncHash \in DOMAIN m.FuncHash2Id
          THEN [m |-> m, id |-> m.FuncHash2Id[FuncHash]]
          ELSE [m  |-> [m EXCEPT !.Functions = Append(@, F),
                                 !.FuncHash2Id = (FuncHash :> NewId) @@ @],
                id |-> NewId]

\* operator<< of an unsigned under std::setw(3) and std::setfill('0').
RECURSIVE SetW3Fill0(_)
SetW3Fill0(str) == IF Len(str) >= 3 THEN str ELSE SetW3Fill0(<<"0">> \o str)

\* One step CS of a chain: a is [m, Sequence, FilePath] so far.
recordStep(a, CS, FuncId) ==
    IF CS.Condition = <<>> THEN a
    ELSE LET C        == CS.Condition[1]
             S        == C.Cond
             LineNo     == IF S # <<>> THEN S[1].Line ELSE 0
             FilePath == IF S # <<>> THEN S[1].File ELSE a.FilePath
             Val      == IF C.isNot THEN ~CS.Flag ELSE CS.Flag
             r        == getOrCreateConditionId(a.m, FilePath, LineNo, C.CondStr, C.Kind)
             Cid      == r.id
             sighting == [File |-> FilePath, Line |-> LineNo, CondNorm |-> C.CondStr, Cid |-> Cid]
         IN  [m        |-> [r.m EXCEPT !.Functions[FuncId + 1].ConditionIds = @ \cup {Cid},
                                       !.seen = @ \cup {sighting}],
              Sequence |-> Append(a.Sequence, <<Cid, Val>>),
              FilePath |-> FilePath]

RECURSIVE recordSteps(_, _, _, _)
recordSteps(a, Chain, FuncId, j) ==
    IF j > Len(Chain) THEN a
    ELSE recordSteps(recordStep(a, Chain[j], FuncId), Chain, FuncId, j + 1)

\* The body of the loop over CondChains for index I (0-based); b is [m, FilePath].
recordChain(b, in, FuncHash, FuncId, I) ==
    LET ChainInfo == in.CondChains[I + 1]
        ChainId   == SetW3Fill0(to_string(I))
        a         == recordSteps([m |-> b.m, Sequence |-> <<>>, FilePath |-> b.FilePath],
                                 ChainInfo.Chain, FuncId, 1)
        hasRet    == I < Len(in.ReturnStrs)
        RetHash   == IF hasRet THEN returnHash(in.ReturnStrs[I + 1]) ELSE U64Zero
        Entry     == [ChainId |-> ChainId, FuncHash |-> FuncHash, Sequence |-> a.Sequence,
                      Signature |-> rollingHash(a.Sequence),
                      MinCover |-> I \in in.MinCover, ReturnHash |-> RetHash]
        R         == [ChainId |-> ChainId, ReturnHash |-> RetHash,
                      ReturnNorm |-> in.ReturnStrs[I + 1]]
        m1        == IF hasRet /\ in.ReturnStrs[I + 1] # <<>>
                       THEN [a.m EXCEPT !.Functions[FuncId + 1].Returns = Append(@, R)]
                       ELSE a.m
    IN  IF ChainInfo.IsContra THEN b
        ELSE [m |-> [m1 EXCEPT !.Chains = Append(@, Entry)], FilePath |-> a.FilePath]

RECURSIVE recordChains(_, _, _, _, _)
recordChains(b, in, FuncHash, FuncId, I) ==
    IF I >= Len(in.CondChains) THEN b
    ELSE recordChains(recordChain(b, in, FuncHash, FuncId, I), in, FuncHash, FuncId, I + 1)

recordFunction(m, in) ==
    LET FuncHash == hash64(in.Signature)
        r        == getOrCreateFunctionId(m, FuncHash, in.Signature, in.Name, in.File)
    IN  recordChains([m |-> r.m, FilePath |-> in.File], in, FuncHash, r.id, 0).m

\* toHex64: "0x" and sixteen lowercase hexadecimal digits, most significant first.
HexDigits == <<"0", "1", "2", "3", "4", "5", "6", "7", "8", "9", "a", "b", "c", "d", "e", "f">>
RECURSIVE HexFrom(_, _)
HexFrom(V, i) ==
    IF i = 0 THEN <<>>
    ELSE <<HexDigits[(V[i] \div 16) + 1], HexDigits[(V[i] % 16) + 1]>> \o HexFrom(V, i - 1)
toHex64(V) == <<"0", "x">> \o HexFrom(V, U64Bytes)

\* dumpAll: the three documents, without their analysis_version.
dumpAll(conds, funcs, chains) ==
    [conditions |->
        [i \in 1..Len(conds) |->
            [id |-> conds[i].Id, file |-> conds[i].File, line |-> conds[i].Line,
             cond_norm |-> conds[i].CondNorm, kind |-> conds[i].Kind,
             hash |-> toHex64(conds[i].Hash)]],
     functions |->
        [i \in 1..Len(funcs) |->
            [func_id |-> funcs[i].FuncId, signature |-> funcs[i].Signature,
             name |-> funcs[i].Name, file |-> funcs[i].File,
             hash |-> toHex64(funcs[i].FuncHash),
             condition_ids |-> funcs[i].ConditionIds,
             return_exprs |->
                [k \in 1..Len(funcs[i].Returns) |->
                    [chain_id |-> funcs[i].Returns[k].ChainId,
                     ret_hash |-> toHex64(funcs[i].Returns[k].ReturnHash),
                     ret_norm |-> funcs[i].Returns[k].ReturnNorm]]]],
     chains |->
        [i \in 1..Len(chains) |->
            [chain_id |-> chains[i].ChainId, func_hash |-> toHex64(chains[i].FuncHash),
             mincover |-> chains[i].MinCover, signature |-> toHex64(chains[i].Signature),
             return_hash |-> toHex64(chains[i].ReturnHash),
             sequence |-> [k \in 1..Len(chains[i].Sequence) |->
                             [cond_id |-> chains[i].Sequence[k][1],
                              value |-> chains[i].Sequence[k][2]]]]]]

----------------------------------------------------------------------------
(* SpecMeta: the front-end hands the functions of a translation unit to    *)
(* recordFunction.  The inputs are the analyses of two functions           *)
(* of a.c: with and without a contradictory chain, and without branches.   *)

FileA == <<"a", ".", "c">>
SigF == <<"i", "n", "t", " ", "f", "(", "i", "n", "t", ")">>
SigG == <<"i", "n", "t", " ", "g", "(", "i", "n", "t", ")">>

\* if (x > 0) at a.c:3; if (!p) at a.c:4; the first again, seen as a loop
\* condition; a default label, which has no condition expression.
CondXPos     == [Cond |-> <<[File |-> FileA, Line |-> 3]>>,
                 CondStr |-> <<"x", " ", ">", " ", "0">>, isNot |-> FALSE, Kind |-> "IF"]
CondNotP     == [Cond |-> <<[File |-> FileA, Line |-> 4]>>,
                 CondStr |-> <<"p">>, isNot |-> TRUE, Kind |-> "IF"]
CondXPosLoop == [CondXPos EXCEPT !.Kind = "LOOP"]
CondDefault  == [Cond |-> <<>>, CondStr |-> <<"x">>, isNot |-> FALSE, Kind |-> "DEFAULT"]

Step(C, Flag) == [Condition |-> <<C>>, Flag |-> Flag]
NullStep == [Condition |-> <<>>, Flag |-> FALSE]
CondChain(isContra, steps) == [IsContra |-> isContra, Chain |-> steps]

ChainsXPos ==
    <<CondChain(FALSE, <<Step(CondXPos, TRUE)>>),
      CondChain(FALSE, <<Step(CondXPos, FALSE)>>)>>
ChainsContraFirst ==
    <<CondChain(TRUE,  <<Step(CondXPos, TRUE), Step(CondNotP, TRUE)>>),
      CondChain(FALSE, <<Step(CondXPosLoop, TRUE), Step(CondNotP, FALSE)>>),
      CondChain(FALSE, <<NullStep, Step(CondDefault, TRUE)>>)>>
ChainsSwapped ==
    <<CondChain(FALSE, <<Step(CondNotP, TRUE), Step(CondXPos, FALSE)>>),
      CondChain(FALSE, <<Step(CondXPos, FALSE), Step(CondNotP, TRUE)>>)>>
ChainsEmpty == <<CondChain(FALSE, <<>>)>>

\* What the analysis hands over for one function: its chains, MinCover
\* (indices into the chains) and ReturnStrs (one per chain, or fewer).
Analyses ==
    { <<ChainsXPos, {0}, <<<<"1">>, <<"0">>>>>>,
      <<ChainsXPos, {1}, <<<<"1">>>>>>,
      <<ChainsContraFirst, {1, 2}, <<<<>>, <<"0">>, <<"1">>>>>>,
      <<ChainsSwapped, {0}, <<<<"1">>, <<"1">>>>>>,
      <<ChainsEmpty, {0}, <<<<"1">>>>>> }

Signatures == {<<SigF, <<"f">>>>, <<SigG, <<"g">>>>}

metaTables ==
    [Conditions |-> Conditions, Functions |-> Functions, Chains |-> Chains,
     ConditionKey2Id |-> ConditionKey2Id, FuncHash2Id |-> FuncHash2Id,
     seen |-> sightings]

RecordFunction ==
    \E sig \in Signatures, an \in Analyses :
        LET in == [Signature |-> sig[1], Name |-> sig[2], File |-> FileA,
                   CondChains |-> an[1], MinCover |-> an[2], ReturnStrs |-> an[3]]
            r  == recordFunction(metaTables, in)
        IN  /\ Len(recorded) < MaxRecords
            /\ Conditions' = r.Conditions
            /\ Functions' = r.Functions
            /\ Chains' = r.Chains
            /\ ConditionKey2Id' = r.ConditionKey2Id
            /\ FuncHash2Id' = r.FuncHash2Id
            /\ sightings' = r.seen
            /\ recorded' = Append(recorded, in)
            /\ UNCHANGED <<runtimeVars, instrVars, supportVars>>

InitMeta == Init /\ env = <<>>

NextMeta == RecordFunction

SpecMeta == InitMeta /\ [][NextMeta]_vars

----------------------------------------------------------------------------
(* The Instrumenter (IfInstrumentVisitor).  An expression or statement is  *)
(* the record of its AST node, k being the node's class.  Text is inserted *)
(* around a node: the rewritten unit is the unit with a LogCond call       *)
(* around each such node.                                                  *)

DeclRefExpr(n) == [k |-> "DeclRefExpr", name |-> n]
CallExpr(n) == [k |-> "CallExpr", name |-> n]
IntegerLiteral(n, v) == [k |-> "IntegerLiteral", name |-> n, value |-> v]
ParenExpr(E) == [k |-> "ParenExpr", sub |-> E]
ImplicitCastExpr(E) == [k |-> "ImplicitCastExpr", sub |-> E]
UnaryOperator(op, E) == [k |-> "UnaryOperator", op |-> op, sub |-> E]
BinaryOperator(L, op, R) == [k |-> "BinaryOperator", op |-> op, lhs |-> L, rhs |-> R]
ConditionalOperator(C, T, F) == [k |-> "ConditionalOperator", cond |-> C, t |-> T, f |-> F]

RECURSIVE IgnoreParenImpCasts(_)
IgnoreParenImpCasts(E) ==
    IF E.k \in {"ParenExpr", "ImplicitCastExpr"} THEN IgnoreParenImpCasts(E.sub) ELSE E

isLogicalOp(E) == E.k = "BinaryOperator" /\ E.op \in {"&&", "||"}

RECURSIVE containsLogicalOp(_)
containsLogicalOp(E0) ==
    LET E == IgnoreParenImpCasts(E0)
    IN  IF E.k = "BinaryOperator"
          THEN IF isLogicalOp(E) THEN TRUE
               ELSE containsLogicalOp(E.lhs) \/ containsLogicalOp(E.rhs)
        ELSE IF E.k = "ConditionalOperator"
          THEN \/ containsLogicalOp(E.cond)
               \/ containsLogicalOp(E.t)
               \/ containsLogicalOp(E.f)
        ELSE FALSE

RECURSIVE rtrimSemiSpace(_)
rtrimSemiSpace(S) ==
    IF S # <<>> /\ S[Len(S)] \in {" ", ";"} THEN rtrimSemiSpace(SubSeq(S, 1, Len(S) - 1))
    ELSE S

\* The spelling of an operator.
OpText(op) ==
    CASE op = "!=" -> <<"!", "=">>
      [] op = "==" -> <<"=", "=">>
      [] op = "&&" -> <<"&", "&">>
      [] op = "||" -> <<"|", "|">>
      [] OTHER     -> <<op>>

\* Stmt::printPretty of an expression.
RECURSIVE printPretty(_)
printPretty(E) ==
    CASE E.k = "DeclRefExpr"         -> <<E.name>>
      [] E.k = "IntegerLiteral"      -> <<E.name>>
      [] E.k = "CallExpr"            -> <<E.name, "(", ")">>
      [] E.k = "ParenExpr"           -> <<"(">> \o printPretty(E.sub) \o <<")">>
      [] E.k = "ImplicitCastExpr"    -> printPretty(E.sub)
      [] E.k = "UnaryOperator"       -> OpText(E.op) \o printPretty(E.sub)
      [] E.k = "BinaryOperator"      ->
            printPretty(E.lhs) \o <<" ">> \o OpText(E.op) \o <<" ">> \o printPretty(E.rhs)
      [] E.k = "ConditionalOperator" ->
            printPretty(E.cond) \o <<" ", "?", " ">> \o printPretty(E.t)
              \o <<" ", ":", " ">> \o printPretty(E.f)

condNormFromExpr(E) ==
    LET PE == IgnoreParenImpCasts(E)
    IN  IF PE.k = "BinaryOperator" /\ PE.op = "!="
          THEN rtrimSemiSpace(printPretty(IgnoreParenImpCasts(PE.lhs))
                                \o <<" ", "=", "=", " ">>
                                \o printPretty(IgnoreParenImpCasts(PE.rhs)))
        ELSE IF PE.k = "UnaryOperator" /\ PE.op = "!"
          THEN rtrimSemiSpace(printPretty(IgnoreParenImpCasts(PE.sub)))
        ELSE rtrimSemiSpace(printPretty(PE))

condNormFlippedNeverForNot(E) ==
    LET PE == IgnoreParenImpCasts(E)
    IN  IF PE.k = "BinaryOperator" THEN PE.op = "!="
        ELSE FALSE

condNormFlipped(E) ==
    LET PE == IgnoreParenImpCasts(E)
    IN  IF PE.k = "BinaryOperator" THEN PE.op = "!="
        ELSE IF PE.k = "UnaryOperator" THEN PE.op = "!"
        ELSE FALSE

makeCondNormAndHash(File, LineNo, E) ==
    LET Norm == condNormFromExpr(E)
    IN  <<Norm, hash64(File \o <<":">> \o to_string(LineNo) \o <<":">> \o Norm)>>

\* A declaration: FunctionDecl for a free function, CXXMethodDecl for a member
\* function, whose Parent is the class.
Decl(k, Parent, Name, hasBody, Items) ==
    [k |-> k, ReturnType |-> <<"i", "n", "t">>, Parent |-> Parent, Name |-> Name,
     parameters |-> <<<<"i", "n", "t">>>>, hasBody |-> hasBody, Body |-> Items]

DeclKinds == {"FunctionDecl", "CXXMethodDecl"}

isCXXClassMember(D) == D.k = "CXXMethodDecl"

RECURSIVE ParamTypes(_, _)
ParamTypes(Params, I) ==
    IF I >= Len(Params) THEN <<>>
    ELSE (IF I > 0 THEN <<",", " ">> ELSE <<>>) \o Params[I + 1] \o ParamTypes(Params, I + 1)

buildSignature(FD) ==
    FD.ReturnType \o <<" ">>
      \o (IF isCXXClassMember(FD) THEN FD.Parent \o <<":", ":">> ELSE <<>>)
      \o FD.Name \o <<"(">> \o ParamTypes(FD.parameters, 0) \o <<")">>

\* The text inserted around a condition: the arguments of the LogCond call
\* other than the value.  E, the node wrapped, and by, the visitor that
\* wrapped it, are history.
Inject(st, File, LineNo, NormAndHash, Flip, E, by) ==
    <<[func |-> st.CurrentFuncHash, file |-> File, line |-> LineNo,
       norm |-> NormAndHash[1], hash |-> NormAndHash[2], flip |-> Flip,
       of |-> E, by |-> by]>>

NoInject == <<>>

\* R.InsertText before the node and R.InsertTextAfterToken after it:
\* LogCond(func, file, line, (bool)(<node>), norm, hash, flip).
InsertTextNegated(ins, r) ==
    IF ins = NoInject THEN r
    ELSE [k |-> "LogCond", args |-> ins[1],
          sub |-> IF ins[1].flip THEN UnaryOperator("!", ParenExpr(r)) ELSE r]

InsertText(ins, r) ==
    IF ins = NoInject THEN r
    ELSE [k |-> "LogCond", args |-> ins[1], sub |-> r]

\* The insertion around the node Op->IgnoreParenImpCasts() of a rewritten operand.
RECURSIVE InsertTextAt(_, _, _)
InsertTextAt(ins, Op, r) ==
    IF ins = NoInject THEN r
    ELSE IF Op.k \in {"ParenExpr", "ImplicitCastExpr"}
      THEN [r EXCEPT !.sub = InsertTextAt(ins, Op.sub, r.sub)]
    ELSE InsertText(ins, r)

VisitIfStmtWholeCondition(If, st) ==
    LET Cond == If.cond
    IN  Inject(st, If.File, If.Line, makeCondNormAndHash(If.File, If.Line, Cond),
               condNormFlipped(Cond), Cond, "VisitIfStmt")

VisitIfStmt(If, st) ==
    LET Cond == If.cond
    IN  IF containsLogicalOp(Cond) THEN NoInject
        ELSE Inject(st, If.File, If.Line, makeCondNormAndHash(If.File, If.Line, Cond),
                    condNormFlipped(Cond), Cond, "VisitIfStmt")

VisitWhileStmt(WS, st) ==
    LET Cond == WS.cond
    IN  IF containsLogicalOp(Cond) THEN NoInject
        ELSE Inject(st, WS.File, WS.Line, makeCondNormAndHash(WS.File, WS.Line, Cond),
                    condNormFlipped(Cond), Cond, "VisitWhileStmt")

VisitForStmt(FS, st) ==
    LET Cond == FS.cond
    IN  IF containsLogicalOp(Cond) THEN NoInject
        ELSE Inject(st, FS.File, FS.Line, makeCondNormAndHash(FS.File, FS.Line, Cond),
                    condNormFlipped(Cond), Cond, "VisitForStmt")

VisitDoStmt(DS, st) ==
    LET Cond == DS.cond
    IN  IF containsLogicalOp(Cond) THEN NoInject
        ELSE Inject(st, DS.File, DS.Line, makeCondNormAndHash(DS.File, DS.Line, Cond),
                    condNormFlipped(Cond), Cond, "VisitDoStmt")

\* loc is the place (File, Line) where the expression begins.
VisitConditionalOperator(CO, st, loc) ==
    LET Cond == CO.cond
    IN  IF containsLogicalOp(Cond) THEN NoInject
        ELSE Inject(st, loc.File, loc.Line, makeCondNormAndHash(loc.File, loc.Line, Cond),
                    condNormFlipped(Cond), Cond, "VisitConditionalOperator")

wrapOperand(Op, st, loc) ==
    LET E == IgnoreParenImpCasts(Op)
        Norm == condNormFromExpr(E)
        H == hash64(loc.File \o <<":">> \o to_string(loc.Line) \o <<":">> \o Norm)
    IN  IF isLogicalOp(E) THEN NoInject
        ELSE Inject(st, loc.File, loc.Line, <<Norm, H>>, condNormFlipped(E), E,
                    "VisitBinaryOperator")

\* The insertions for the left and for the right operand.
VisitBinaryOperator(BO, st, loc) ==
    IF st.CondDepth <= 0 THEN <<NoInject, NoInject>>
    ELSE IF ~isLogicalOp(BO) THEN <<NoInject, NoInject>>
    ELSE <<wrapOperand(BO.lhs, st, loc), wrapOperand(BO.rhs, st, loc)>>

\* RecursiveASTVisitor::TraverseStmt of an expression: the visit of the node,
\* then its children.
RECURSIVE TraverseExpr(_, _, _)
TraverseExpr(E, st, loc) ==
    CASE E.k \in {"DeclRefExpr", "IntegerLiteral", "CallExpr"} -> E
      [] E.k \in {"ParenExpr", "ImplicitCastExpr", "UnaryOperator"} ->
            [E EXCEPT !.sub = TraverseExpr(E.sub, st, loc)]
      [] E.k = "BinaryOperator" ->
            LET ins == VisitBinaryOperator(E, st, loc)
            IN  [E EXCEPT !.lhs = InsertTextAt(ins[1], E.lhs, TraverseExpr(E.lhs, st, loc)),
                          !.rhs = InsertTextAt(ins[2], E.rhs, TraverseExpr(E.rhs, st, loc))]
      [] E.k = "ConditionalOperator" ->
            \* TraverseConditionalOperator
            LET ins == VisitConditionalOperator(E, st, loc)
                inCond == [st EXCEPT !.CondDepth = @ + 1]
            IN  [E EXCEPT !.cond = InsertText(ins, TraverseExpr(E.cond, inCond, loc)),
                          !.t = TraverseExpr(E.t, st, loc),
                          !.f = TraverseExpr(E.f, st, loc)]

\* TraverseIfStmt, TraverseWhileStmt, TraverseForStmt, TraverseDoStmt: the
\* visit of the statement, then its condition with CondDepth raised; an
\* expression statement is traversed as it is.
TraverseStmt(S, st) ==
    LET loc == [File |-> S.File, Line |-> S.Line]
        inCond == [st EXCEPT !.CondDepth = @ + 1]
    IN  CASE S.k = "IfStmt" ->
               [S EXCEPT !.cond = InsertText(VisitIfStmt(S, st), TraverseExpr(S.cond, inCond, loc))]
          [] S.k = "WhileStmt" ->
               [S EXCEPT !.cond = InsertText(VisitWhileStmt(S, st), TraverseExpr(S.cond, inCond, loc))]
          [] S.k = "ForStmt" ->
               [S EXCEPT !.cond = InsertText(VisitForStmt(S, st), TraverseExpr(S.cond, inCond, loc))]
          [] S.k = "DoStmt" ->
               [S EXCEPT !.cond = InsertText(VisitDoStmt(S, st), TraverseExpr(S.cond, inCond, loc))]
          [] S.k = "ExprStmt" ->
               [S EXCEPT !.cond = TraverseExpr(S.cond, st, loc)]

RECURSIVE TraverseDecl(_, _)
RECURSIVE TraverseItems(_, _, _, _)

\* The statements and local declarations of a body, in order; the result is
\* the rewritten items and the visitor's state afterwards.
TraverseItems(Items, st, I, out) ==
    IF I > Len(Items) THEN [out |-> out, st |-> st]
    ELSE IF Items[I].k \in DeclKinds
      THEN LET d == TraverseDecl(Items[I], st)
           IN  TraverseItems(Items, d.st, I + 1, Append(out, d.out))
    ELSE TraverseItems(Items, st, I + 1, Append(out, TraverseStmt(Items[I], st)))

\* RecursiveASTVisitor::TraverseFunctionHelper: the body, if there is one.
TraverseFunctionHelper(D, st) ==
    IF D.hasBody
      THEN LET b == TraverseItems(D.Body, st, 1, <<>>)
           IN  [out |-> [D EXCEPT !.Body = b.out], st |-> b.st]
    ELSE [out |-> D, st |-> st]

TraverseFunctionDeclNoRestore(FD, st) ==
    LET Prev == st.CurrentFuncHash
        in   == IF FD.hasBody
                  THEN [st EXCEPT !.CurrentFuncHash = hash64(buildSignature(FD))]
                ELSE st
        Res  == TraverseFunctionHelper(FD, in)
    IN  [out |-> Res.out, st |-> Res.st]

TraverseFunctionDecl(FD, st) ==
    LET Prev == st.CurrentFuncHash
        in   == IF FD.hasBody
                  THEN [st EXCEPT !.CurrentFuncHash = hash64(buildSignature(FD))]
                ELSE st
        Res  == TraverseFunctionHelper(FD, in)
    IN  [out |-> Res.out, st |-> [Res.st EXCEPT !.CurrentFuncHash = Prev]]

\* RecursiveASTVisitor::TraverseDecl calls the Traverse function of the
\* declaration's own class: the visitor's TraverseFunctionDecl for a
\* FunctionDecl, the base class's TraverseCXXMethodDecl for a CXXMethodDecl.
TraverseDecl(D, st) ==
    IF D.k = "FunctionDecl" THEN TraverseFunctionDecl(D, st)
    ELSE TraverseFunctionHelper(D, st)

\* The visitor as constructed.
IfInstrumentVisitor == [CurrentFuncHash |-> U64Zero, CondDepth |-> 0]

\* Visitor.TraverseDecl(Context.getTranslationUnitDecl()): the rewritten unit.
HandleTranslationUnit(Unit) == TraverseItems(Unit, IfInstrumentVisitor, 1, <<>>).out

----------------------------------------------------------------------------
(* The instrumented program at run time.                                   *)

Bool(v) == IF v = 0 THEN 0 ELSE 1

\* The value of an expression in an environment (the values its variables
\* hold and its calls return), with the cond events logged and the calls
\* made on the way, in order.
RECURSIVE Eval(_, _, _)
Eval(E, vals, tr) ==
    CASE E.k = "DeclRefExpr"    -> [v |-> vals[E.name], tr |-> tr]
      [] E.k = "IntegerLiteral" -> [v |-> E.value, tr |-> tr]
      [] E.k = "CallExpr"       ->
            [v |-> vals[E.name], tr |-> [tr EXCEPT !.called = Append(@, E.name)]]
      [] E.k \in {"ParenExpr", "ImplicitCastExpr"} -> Eval(E.sub, vals, tr)
      [] E.k = "UnaryOperator"  ->
            LET s == Eval(E.sub, vals, tr)
            IN  [v |-> 1 - Bool(s.v), tr |-> s.tr]
      [] E.k = "BinaryOperator" ->
            LET l == Eval(E.lhs, vals, tr)
                r == Eval(E.rhs, vals, l.tr)
            IN  IF E.op = "&&"
                  THEN IF l.v = 0 THEN [v |-> 0, tr |-> l.tr]
                       ELSE [v |-> Bool(r.v), tr |-> r.tr]
                ELSE IF E.op = "||"
                  THEN IF l.v # 0 THEN [v |-> 1, tr |-> l.tr]
                       ELSE [v |-> Bool(r.v), tr |-> r.tr]
                ELSE IF E.op = "!=" THEN [v |-> IF l.v # r.v THEN 1 ELSE 0, tr |-> r.tr]
                ELSE IF E.op = "==" THEN [v |-> IF l.v = r.v THEN 1 ELSE 0, tr |-> r.tr]
                ELSE [v |-> IF l.v > r.v THEN 1 ELSE 0, tr |-> r.tr]
      [] E.k = "ConditionalOperator" ->
            LET c == Eval(E.cond, vals, tr)
            IN  IF c.v # 0 THEN Eval(E.t, vals, c.tr) ELSE Eval(E.f, vals, c.tr)
      [] E.k = "LogCond" ->
            \* Runtime::LogCond writes the cond event and returns value.
            LET s == Eval(E.sub, vals, tr)
                value == Bool(s.v)
            IN  [v |-> value,
                 tr |-> [s.tr EXCEPT !.events = Append(@, [value |-> value] @@ E.args)]]

NoTrace == [events |-> <<>>, called |-> <<>>]

----------------------------------------------------------------------------
(* SpecInstr: a translation unit is instrumented, then conditions of it    *)
(* are executed, as written and as instrumented, in one environment.       *)

Stmt(k, LineNo, Cond) == [k |-> k, File |-> FileA, Line |-> LineNo, cond |-> Cond]

ExprX == DeclRefExpr("x")
ExprP == DeclRefExpr("p")
CallA == CallExpr("a")
CallB == CallExpr("b")
Zero == IntegerLiteral("0", 0)
XPos == BinaryOperator(ExprX, ">", Zero)
PNotNull == BinaryOperator(ImplicitCastExpr(ExprP), "!=", Zero)
NotP == UnaryOperator("!", ExprP)

FuncF(Items) == Decl("FunctionDecl", <<>>, <<"f">>, TRUE, Items)
FuncG(Items) == Decl("FunctionDecl", <<>>, <<"g">>, TRUE, Items)
MethodM(Items) == Decl("CXXMethodDecl", <<"S">>, <<"m">>, TRUE, Items)

Units ==
    { \* one probe of each kind around a whole condition
      <<FuncF(<<Stmt("IfStmt", 3, XPos),
                Stmt("WhileStmt", 4, NotP),
                Stmt("ForStmt", 5, PNotNull),
                Stmt("DoStmt", 6, ParenExpr(UnaryOperator("!", NotP))),
                Stmt("ExprStmt", 7, ConditionalOperator(PNotNull, CallA, CallB))>>)>>,
      \* logical operators
      <<FuncG(<<Stmt("IfStmt", 3, BinaryOperator(CallA, "&&", CallB)),
                Stmt("IfStmt", 4, BinaryOperator(CallA, "||", UnaryOperator("!", CallB))),
                Stmt("WhileStmt", 5,
                     BinaryOperator(ParenExpr(PNotNull), "&&",
                                    ParenExpr(BinaryOperator(CallA, "||", CallB)))),
                Stmt("DoStmt", 6,
                     UnaryOperator("!", ParenExpr(BinaryOperator(CallA, "&&", CallB)))),
                Stmt("ExprStmt", 7,
                     ConditionalOperator(BinaryOperator(NotP, "&&", CallA), CallB, Zero))>>)>>,
      \* a member function between two free functions
      <<FuncF(<<Stmt("IfStmt", 3, XPos)>>),
        MethodM(<<Stmt("IfStmt", 6, NotP)>>),
        FuncG(<<Stmt("IfStmt", 9, PNotNull)>>)>>,
      \* a local declaration and a member function of a local class
      <<FuncF(<<Decl("FunctionDecl", <<>>, <<"g">>, FALSE, <<>>),
                Stmt("IfStmt", 4, XPos),
                MethodM(<<Stmt("WhileStmt", 6, NotP)>>),
                Stmt("IfStmt", 8, BinaryOperator(CallA, "&&", CallB))>>)>> }

Names == {"a", "b", "p", "x"}
Environments == [Names -> {0, 1}]

\* The conditions of a unit in traversal order, each with the innermost
\* function definition around it (<<>> if there is none).
RECURSIVE Sites(_, _, _)
Sites(Items, D, I) ==
    IF I > Len(Items) THEN <<>>
    ELSE (IF Items[I].k \in DeclKinds
            THEN IF Items[I].hasBody THEN Sites(Items[I].Body, <<Items[I]>>, 1) ELSE <<>>
          ELSE <<[decl |-> D, stmt |-> Items[I]]>>)
         \o Sites(Items, D, I + 1)

Instrument ==
    \E Unit \in Units :
        /\ source = <<>>
        /\ source' = Unit
        /\ rewritten' = HandleTranslationUnit(Unit)
        /\ UNCHANGED <<executed, runtimeVars, staticVars, supportVars>>

Execute ==
    /\ source # <<>>
    /\ \E i \in 1..Len(Sites(source, <<>>, 1)), vals \in Environments :
          executed' = <<[site |-> i, vals |-> vals,
                         written |-> Eval(Sites(source, <<>>, 1)[i].stmt.cond, vals, NoTrace),
                         instrumented |-> Eval(Sites(rewritten, <<>>, 1)[i].stmt.cond, vals,
                                               NoTrace)]>>
    /\ UNCHANGED <<source, rewritten, runtimeVars, staticVars, supportVars>>

InitInstr == Init /\ env = <<>>

NextInstr == Instrument \/ Execute

SpecInstr == InitInstr /\ [][NextInstr]_vars

----------------------------------------------------------------------------
(* Vocabulary of the properties.                                           *)

MaxOf(S) == CHOOSE x \in S : \A y \in S : y <= x

\* The events the step appends to the log.
NewEvents ==
    SubSeq(Events(file'), Len(Events(file)) + 1, Len(Events(file')))

\* The per-thread and id state of the tracer, without the log.
tracerState == <<TLTest, TLInvStack, TLInAssertion, TLSegmentId,
                 NextTestId, NextInvocationId>>

OfType(evs, ty) == SelectSeq(evs, LAMBDA e : e.type = ty)

TopDepth(t) == IF TLInvStack[t] = <<>> THEN 0 ELSE Back(TLInvStack[t]).depth

\* Read off the log alone: the test thread t has open before event i, as <<>> or <<id>>.
LogTestAt(evs, i, t) ==
    LET js == {j \in 1..(i - 1) : evs[j].thr = t /\ evs[j].type \in {"test_start", "test_end"}}
    IN  IF js = {} THEN <<>>
        ELSE IF evs[MaxOf(js)].type = "test_start" THEN <<evs[MaxOf(js)].test_id>> ELSE <<>>

\* Read off the log alone: the invocation thread t has open before event i.
LogInvocationAt(evs, i, t) ==
    LET js == {j \in 1..(i - 1) : evs[j].thr = t /\
                 evs[j].type \in {"invocation_start", "invocation_end", "test_end"}}
    IN  IF js = {} THEN <<>>
        ELSE IF evs[MaxOf(js)].type = "invocation_start"
               THEN <<evs[MaxOf(js)].invocation_id>> ELSE <<>>

----------------------------------------------------------------------------
\* What a step of thread t does when it is a BeginInvocation or an EndInvocation.
C1_Step(t) ==
    LET op       == call'[t].op
        outerBeg == op = "BeginInvocation" /\ TLTest[t] # <<>> /\ TLInvStack[t] = <<>>
        innerBeg == op = "BeginInvocation" /\ TLTest[t] # <<>> /\ TLInvStack[t] # <<>>
        outerEnd == op = "EndInvocation" /\ TopDepth(t) = 1
        innerEnd == op = "EndInvocation" /\ TopDepth(t) > 1
    IN  /\ (OfType(NewEvents, "invocation_start") # <<>>) <=> outerBeg
        /\ (OfType(NewEvents, "invocation_end") # <<>>) <=> outerEnd
        /\ outerBeg => /\ Len(NewEvents) = 1
                       /\ Len(TLInvStack'[t]) = 1
                       /\ TLInvStack'[t][1].depth = 1
                       /\ NewEvents[1].invocation_id = TLInvStack'[t][1].id
        /\ innerBeg => /\ NewEvents = <<>>
                       /\ TLInvStack'[t] = SetBackDepth(TLInvStack[t], TopDepth(t) + 1)
        /\ innerEnd => /\ NewEvents = <<>>
                       /\ TLInvStack'[t] = SetBackDepth(TLInvStack[t], TopDepth(t) - 1)
        /\ outerEnd => /\ Len(NewEvents) = 1
                       /\ NewEvents[1].invocation_id = Back(TLInvStack[t]).id
                       /\ TLInvStack'[t] = PopBack(TLInvStack[t])

\* C1: with an active test, invocation_start is written only by a
\* BeginInvocation that finds no frame open and invocation_end only by the
\* EndInvocation that closes the outermost frame, one event each; a nested
\* BeginInvocation/EndInvocation writes nothing and only raises/lowers the
\* depth of the top frame.
C1_OutermostPairEmits == [][\A t \in MainThread : C1_Step(t)]_vars

\* A nested BeginInvocation has run: depth 2, and the log still holds one invocation_start.
C1_Witness ==
    /\ call["t1"].op = "BeginInvocation"
    /\ TopDepth("t1") = 2
    /\ Len(OfType(Events(file), "invocation_start")) = 1
    /\ Len(OfType(Events(file), "invocation_end")) = 0

\* The segment ids of one test's invocation_start events, in log order.
C2_SegmentsOrdered ==
    LET evs == Events(file)
    IN  \A i, j \in 1..Len(evs) :
          (/\ i < j
           /\ evs[i].type = "invocation_start" /\ evs[j].type = "invocation_start"
           /\ evs[i].thr = evs[j].thr /\ evs[i].test_id = evs[j].test_id)
          => evs[i].segment_id <= evs[j].segment_id

\* The segment id a step writes, against the count of AssertionEnd calls.
C2_Step(t) ==
    \A k \in 1..Len(NewEvents) :
        NewEvents[k].type = "invocation_start"
        => NewEvents[k].segment_id = assertEndCalls[t]

\* C2: the segment_id of every invocation_start equals the number of
\* AssertionEnd calls the thread made since the BeginTest of its test, and
\* the segment ids of one test's invocation_start events never decrease.
C2_SegmentCountsAssertionEnds ==
    /\ []C2_SegmentsOrdered
    /\ [][\A t \in MainThread : C2_Step(t)]_vars

\* One test started an invocation in segment 0 and, after an AssertionEnd, one in segment 1.
C2_Witness ==
    LET starts == OfType(Events(file), "invocation_start")
    IN  /\ Len(starts) = 2
        /\ starts[1].test_id = starts[2].test_id
        /\ starts[1].segment_id = 0
        /\ starts[2].segment_id = 1

\* The in_oracle a step writes, against the AssertionBegin calls still unmatched.
C3_Step(t) ==
    \A k \in 1..Len(NewEvents) :
        NewEvents[k].type = "invocation_start"
        => NewEvents[k].in_oracle = (IF openAsserts[t] > 0 THEN 1 ELSE 0)

\* C3: the invocation_start of an outermost BeginInvocation carries
\* in_oracle=1 exactly when the call runs inside an AssertionBegin /
\* AssertionEnd pair that is still open, nested pairs included.
C3_InOracleInsideOpenPair == [][\A t \in MainThread : C3_Step(t)]_vars

\* A BeginTest step of a thread that has a test.
C4_Step(t) ==
    (call'[t].op = "BeginTest" /\ TLTest[t] # <<>>)
    => UNCHANGED <<file, tracerState>>

\* C4: a BeginTest made while a test is active is ignored: no event, no
\* test id consumed, the thread's state unchanged.
C4_SecondBeginTestIgnored == [][\A t \in MainThread : C4_Step(t)]_vars

\* The mis-nested calls of thread t.
C5_Step(t) ==
    /\ (call'[t].op \in {"AssertionBegin", "BeginInvocation"} /\ TLTest[t] = <<>>)
       => UNCHANGED <<file, flushed, tracerState>>
    /\ (call'[t].op = "EndInvocation" /\ TLInvStack[t] = <<>>)
       => UNCHANGED <<file, flushed, tracerState>>

\* C5: AssertionBegin and BeginInvocation without an active test, and
\* EndInvocation with an empty stack, write nothing and change neither the
\* thread's state nor any id counter.
C5_MisnestedCallsAreNoOps == [][\A t \in MainThread : C5_Step(t)]_vars

\* AssertionBegin was called after a whole test had ended, with no test active.
C5_Witness ==
    /\ call["t1"].op = "AssertionBegin"
    /\ TLTest["t1"] = <<>>
    /\ ~TLInAssertion["t1"]
    /\ Len(OfType(Events(file), "test_end")) = 1
    /\ Len(OfType(Events(file), "assertion")) = 0

\* A thread without a test has no frame.
C6_Idle == \A t \in Threads : TLTest[t] = <<>> => TLInvStack[t] = <<>>

\* An EndTest step, and an EndInvocation step of a thread without a test.
C6_Step(t) ==
    /\ (call'[t].op = "EndTest" /\ TLTest[t] # <<>>)
       => /\ Len(NewEvents) = 1
          /\ NewEvents[1].type = "test_end"
          /\ NewEvents[1].test_id = TLTest[t][1].id
          /\ TLTest'[t] = <<>>
          /\ TLInvStack'[t] = <<>>
          /\ TLInAssertion'[t] = FALSE
          /\ TLSegmentId'[t] = 0
    /\ (call'[t].op = "EndTest" /\ TLTest[t] = <<>>)
       => UNCHANGED <<file, flushed, tracerState>>
    /\ (call'[t].op = "EndInvocation" /\ TLTest[t] = <<>>)
       => NewEvents = <<>>

\* C6: EndTest with an active test writes one test_end for it and leaves
\* the thread idle (no test, empty stack, flag false, segment 0); the
\* discarded frames get no invocation_end, also not from a later
\* EndInvocation; EndTest without a test writes and changes nothing.
C6_EndTestReturnsToIdle ==
    /\ []C6_Idle
    /\ [][\A t \in MainThread : C6_Step(t)]_vars

\* EndInvocation arrived after an EndTest that discarded an open frame.
C6_Witness ==
    LET evs == Events(file)
    IN  /\ call["t1"].op = "EndInvocation"
        /\ TLTest["t1"] = <<>>
        /\ Len(evs) = 3
        /\ evs[2].type = "invocation_start"
        /\ evs[3].type = "test_end"

\* A LogCond step of thread t.
C7_Step(t) ==
    call'[t].op = "LogCond"
    => /\ ret'[t] = <<call'[t].value>>
       /\ Len(NewEvents) = 1
       /\ NewEvents[1].type = "cond"
       /\ NewEvents[1].val = (IF call'[t].value THEN 1 ELSE 0)
       /\ UNCHANGED tracerState

\* C7: LogCond returns the boolean it was given, in every state of the
\* tracer, writes exactly one cond event, and leaves test, stack, depth,
\* flag, segment and id counters as they were.
C7_LogCondReturnsValue == [][\A t \in MainThread : C7_Step(t)]_vars

\* C8: a cond event carries test_id exactly when its thread has a test
\* open at that point of the log, and then that test's id; it carries
\* invocation_id exactly when an invocation_start of the thread is not yet
\* closed, and then the id of that invocation_start, at every depth.
C8_CondAttribution ==
    LET evs == Events(file)
    IN  \A i \in 1..Len(evs) :
          evs[i].type = "cond" =>
            LET T == LogTestAt(evs, i, evs[i].thr)
                I == LogInvocationAt(evs, i, evs[i].thr)
            IN  /\ ("test_id" \in DOMAIN evs[i]) <=> (T # <<>>)
                /\ ("test_id" \in DOMAIN evs[i]) => evs[i].test_id = T[1]
                /\ ("invocation_id" \in DOMAIN evs[i]) <=> (I # <<>>)
                /\ ("invocation_id" \in DOMAIN evs[i]) => evs[i].invocation_id = I[1]

\* Two cond events of one invocation, the second logged after re-entry at depth 2.
C8_Witness ==
    LET evs == Events(file)
    IN  /\ Len(evs) = 4
        /\ evs[2].type = "invocation_start"
        /\ evs[3].type = "cond"
        /\ evs[4].type = "cond"
        /\ evs[4].invocation_id = evs[2].invocation_id
        /\ TopDepth("t1") = 2

\* The two pieces of every line are adjacent and by one writer.
C9_LinesWhole ==
    \A i \in 1..Len(file) :
        /\ file[i].k = "open" =>
             IF i < Len(file)
               THEN file[i + 1].k = "close" /\ file[i + 1].thr = file[i].thr
                    /\ file[i + 1].n = file[i].n
               ELSE pc[file[i].thr] = "line" /\ mutex = file[i].thr
        /\ file[i].k = "close" =>
             i > 1 /\ file[i - 1].k = "open" /\ file[i - 1].thr = file[i].thr

\* Writing happens under the mutex, and nothing unflushed is left when it is free.
C9_UnderMutex ==
    /\ \A t \in Threads : pc[t] \in {"cs", "line"} => mutex = t
    /\ (\A t \in Threads : pc[t] # "line") => flushed = Len(file)
    /\ mutex = NoThread => flushed = Len(file)

\* The pieces of one thread are in the order of its calls.
C9_ProgramOrder ==
    \A i, j \in 1..Len(file) :
        (i < j /\ file[i].thr = file[j].thr) => file[i].n <= file[j].n

\* C9: every line is written whole while its writer holds the file mutex
\* and is flushed before the mutex is released, so the pieces of two lines
\* never interleave; the lines of one thread are in the order of its calls.
C9_LinesAtomicInProgramOrder == C9_LinesWhole /\ C9_UnderMutex /\ C9_ProgramOrder

\* t1 is in the middle of its line while t2, which already wrote a line, waits for the mutex.
C9_Witness ==
    /\ pc["t1"] = "line"
    /\ pc["t2"] = "lock"
    /\ \E i \in 1..Len(file) : file[i].thr = "t2" /\ file[i].k = "close"

\* The path the claim gives the log for the argument of a call.
C10_PathOf(arg) ==
    IF arg # NullPtr /\ arg[1] # EmptyPath THEN arg[1]
    ELSE IF env # <<>> THEN env[1]
    ELSE <<"llm_reqs", "runtime.ndjson">>

\* Opened at most once, before any event, and open once the first call left the guard.
C10_OpenedOnce ==
    /\ logFile.opens <= 1
    /\ file # <<>> => logFile.isOpen
    /\ \A t \in Threads : pc[t] \in {"lock", "cs", "line"} => logFile.isOpen
    /\ guard = "later" => logFile.isOpen

\* The step in which the first call at the once-guard leaves DoInit.
C10_FirstCallOpens ==
    (guard = "first" /\ guard' = "later")
    => \E t \in Threads :
          /\ pc[t] = "init" /\ pc'[t] # "init"
          /\ logFile'.isOpen
          /\ logFile'.opens = 1
          /\ logFile'.path = C10_PathOf(OnceArg(call[t]))

\* C10: the log is opened exactly once, by the call that reaches the
\* once-guard first and before any event is written; its path is that
\* call's non-empty argument, else BRINFO_TRACE_PATH, else the default;
\* once open it never changes.
C10_LogOpenedOnceByFirstCall ==
    /\ []C10_OpenedOnce
    /\ [][logFile.isOpen => logFile' = logFile]_vars
    /\ [][C10_FirstCallOpens]_vars

----------------------------------------------------------------------------
\* C11: each thread's invocation stack holds at most one frame, and a frame
\* that is present has depth >= 1; a BeginInvocation made while a frame is
\* open pushes nothing and raises the depth of the top frame by one.
C11_AtMostOneFrame ==
    /\ [](\A t \in Threads :
            /\ Len(TLInvStack[t]) <= 1
            /\ \A k \in 1..Len(TLInvStack[t]) : TLInvStack[t][k].depth >= 1)
    /\ [][\A t \in MainThread :
            (call'[t].op = "BeginInvocation" /\ ~exc'[t] /\ TLInvStack[t] # <<>>)
            => /\ Len(TLInvStack'[t]) = Len(TLInvStack[t])
               /\ TLInvStack'[t] = SetBackDepth(TLInvStack[t], TopDepth(t) + 1)]_vars

\* The one frame was entered twice and left once: it is still there, at depth 1.
C11_Witness ==
    /\ call["t1"].op = "EndInvocation"
    /\ Len(TLInvStack["t1"]) = 1
    /\ TopDepth("t1") = 1
    /\ Len(OfType(Events(file), "invocation_start")) = 1
    /\ Len(OfType(Events(file), "invocation_end")) = 0

\* C12: under every interleaving of two threads, the test_start events of
\* the log carry strictly increasing test ids and the invocation_start
\* events strictly increasing invocation ids, so no id occurs twice.
C12_IdsStrictlyIncreasing ==
    LET evs == Events(file)
    IN  \A i, j \in 1..Len(evs) :
          i < j =>
            /\ (evs[i].type = "test_start" /\ evs[j].type = "test_start")
               => evs[i].test_id < evs[j].test_id
            /\ (evs[i].type = "invocation_start" /\ evs[j].type = "invocation_start")
               => evs[i].invocation_id < evs[j].invocation_id

\* Both threads started a test and an invocation; t2 drew the later test id and the earlier invocation id.
C12_Witness ==
    LET evs == Events(file)
    IN  /\ Len(evs) = 4
        /\ evs[1].type = "test_start" /\ evs[1].thr = "t1"
        /\ evs[2].type = "test_start" /\ evs[2].thr = "t2"
        /\ evs[3].type = "invocation_start" /\ evs[3].thr = "t2"
        /\ evs[4].type = "invocation_start" /\ evs[4].thr = "t1"

----------------------------------------------------------------------------
\* The triple of a sighting or of a table entry.
C13_Triple(x) == <<x.File, x.Line, x.CondNorm>>

\* What the table and the sightings look like in every state.
C13_Interned ==
    /\ \A i \in 1..Len(Conditions) : Conditions[i].Id = i - 1
    /\ \A i, j \in 1..Len(Conditions) :
          C13_Triple(Conditions[i]) = C13_Triple(Conditions[j]) => i = j
    /\ \A x, y \in sightings : C13_Triple(x) = C13_Triple(y) => x.Cid = y.Cid
    /\ \A x \in sightings :
          /\ x.Cid < Len(Conditions)
          /\ C13_Triple(Conditions[x.Cid + 1]) = C13_Triple(x)
          /\ Conditions[x.Cid + 1].Hash = conditionHash(x.File, x.Line, x.CondNorm)

\* What a step does to the table: it appends one entry per triple not seen before.
C13_AppendOnly ==
    /\ Len(Conditions') >= Len(Conditions)
    /\ SubSeq(Conditions', 1, Len(Conditions)) = Conditions
    /\ Len(Conditions') - Len(Conditions)
         = Cardinality({C13_Triple(x) : x \in sightings'} \ {C13_Triple(x) : x \in sightings})

\* C13: two sightings of one (file, line, cond_norm) resolve to the same
\* cond_id and cond_hash; the conditions table gains an entry only on the
\* first sighting of a triple, entry i has id i, and no entry is ever
\* modified.
C13_ConditionInterning == []C13_Interned /\ [][C13_AppendOnly]_vars

\* x > 0 at a.c:3 was sighted in two recordFunction calls, the second time as a
\* loop condition, and is still the one entry of the table, with its first kind.
C13_Witness ==
    /\ Len(recorded) = 2
    /\ recorded[1].CondChains = ChainsXPos
    /\ recorded[2].CondChains = ChainsContraFirst
    /\ Len(Conditions) = 3
    /\ Conditions[1].Kind = "IF"
    /\ Len(Chains) = 4
    /\ Chains[3].Sequence[1][1] = Conditions[1].Id

\* The input of the recordFunction call a step makes was recorded before.
C14_Repeated ==
    /\ Len(recorded') = Len(recorded) + 1
    /\ \E k \in 1..Len(recorded) : recorded[k] = recorded'[Len(recorded')]

\* C14: a second recordFunction call with identical inputs leaves the
\* conditions, functions (return lists included) and chains tables as they
\* are, so the dump is the same and no two chain entries share
\* (func_hash, chain_id).
C14_RecordFunctionIdempotent ==
    /\ [][C14_Repeated =>
            /\ Conditions' = Conditions
            /\ Functions' = Functions
            /\ Chains' = Chains
            /\ dumpAll(Conditions', Functions', Chains')
                 = dumpAll(Conditions, Functions, Chains)]_vars
    /\ [](\A i, j \in 1..Len(Chains) :
            (Chains[i].FuncHash = Chains[j].FuncHash /\ Chains[i].ChainId = Chains[j].ChainId)
            => i = j)

\* The chains a step appends.
C15_NewChains == SubSeq(Chains', Len(Chains) + 1, Len(Chains'))

\* The indices (from 0) of the non-contradictory chains of an input, in order.
C15_Surviving(in) ==
    LET live == {I \in 0..(Len(in.CondChains) - 1) : ~in.CondChains[I + 1].IsContra}
        RECURSIVE sorted(_)
        sorted(S) == IF S = {} THEN <<>>
                     ELSE LET lo == CHOOSE x \in S : \A y \in S : x <= y
                          IN  <<lo>> \o sorted(S \ {lo})
    IN  sorted(live)

\* The recordFunction step: one chain entry per surviving chain, numbered from 000.
C15_Step ==
    Len(recorded') = Len(recorded) + 1 =>
      LET in   == recorded'[Len(recorded')]
          surv == C15_Surviving(in)
          new  == C15_NewChains
      IN  /\ Len(new) = Len(surv)
          /\ \A k \in 1..Len(surv) :
                LET I == surv[k]
                IN  /\ new[k].ChainId = SetW3Fill0(to_string(k - 1))
                    /\ new[k].MinCover = (I \in in.MinCover)
                    /\ new[k].ReturnHash =
                         (IF I < Len(in.ReturnStrs) THEN returnHash(in.ReturnStrs[I + 1])
                          ELSE U64Zero)
                    /\ Len(new[k].Sequence) =
                         Len(SelectSeq(in.CondChains[I + 1].Chain,
                                       LAMBDA CS : CS.Condition # <<>>))

\* C15: contradictory chains do not reach the chains table, and the k-th
\* surviving chain of a function gets chain_id k-1 as three zero-padded
\* digits (000, 001, ... without gaps), with the min-cover flag and the
\* return form of that same chain.
C15_SurvivingChainsNumberedInOrder == [][C15_Step]_vars

\* The constants of the law: 0xcbf29ce484222325 and 0x100000001b3.
C16_Offset == Literal(<<12, 11, 15, 2, 9, 12, 14, 4, 8, 4, 2, 2, 2, 3, 2, 5>>, 16, U64Zero)
C16_Prime == Literal(<<1, 0, 0, 0, 0, 0, 0, 0, 1, 11, 3>>, 16, U64Zero)

\* The law for one more element e = (cond_id, value).
C16_Mix(sig, e) ==
    MulU64(XorU64(sig, U64(2 * e[1] + (IF e[2] THEN 1 ELSE 0))), C16_Prime)

\* C16: the signature of the empty sequence is 0xcbf29ce484222325, and for
\* every prefix seq ++ [e] of a recorded chain,
\* signature(seq ++ [e]) = ((signature(seq) XOR ((cond_id << 1) | value)) * 0x100000001b3) mod 2^64.
C16_RollingLaw ==
    \A i \in 1..Len(Chains) :
        LET seq == Chains[i].Sequence
        IN  /\ Chains[i].Signature = rollingHash(seq)
            /\ rollingHash(<<>>) = C16_Offset
            /\ \A n \in 1..Len(seq) :
                  rollingHash(SubSeq(seq, 1, n))
                    = C16_Mix(rollingHash(SubSeq(seq, 1, n - 1)), seq[n])

----------------------------------------------------------------------------
(* Claims about the Instrumenter.                                          *)

\* The LogCond calls inside an expression: their injected arguments.
RECURSIVE LogCondsIn(_)
LogCondsIn(E) ==
    CASE E.k \in {"DeclRefExpr", "IntegerLiteral", "CallExpr"} -> {}
      [] E.k \in {"ParenExpr", "ImplicitCastExpr", "UnaryOperator"} -> LogCondsIn(E.sub)
      [] E.k = "BinaryOperator" -> LogCondsIn(E.lhs) \cup LogCondsIn(E.rhs)
      [] E.k = "ConditionalOperator" ->
            LogCondsIn(E.cond) \cup LogCondsIn(E.t) \cup LogCondsIn(E.f)
      [] E.k = "LogCond" -> {E.args} \cup LogCondsIn(E.sub)

SourceSites == Sites(source, <<>>, 1)
RewrittenSites == Sites(rewritten, <<>>, 1)

\* Every probe of the rewritten unit.
Injected == UNION {LogCondsIn(RewrittenSites[i].stmt.cond) : i \in 1..Len(RewrittenSites)}

\* The text of an expression without its parentheses and implicit conversions.
C17_Text(E) == printPretty(IgnoreParenImpCasts(E))

\* The rule for one condition expression.
C17_Rule(E, norm, flip) ==
    LET PE == IgnoreParenImpCasts(E)
    IN  IF PE.k = "BinaryOperator" /\ PE.op = "!="
          THEN norm = C17_Text(PE.lhs) \o <<" ", "=", "=", " ">> \o C17_Text(PE.rhs) /\ flip
        ELSE IF PE.k = "UnaryOperator" /\ PE.op = "!"
          THEN norm = C17_Text(PE.sub) /\ flip
        ELSE norm = C17_Text(PE) /\ ~flip

\* C17: for every condition the instrumenter wraps, with parentheses and
\* implicit conversions stripped: a top-level != gives "<lhs> == <rhs>" and
\* norm_flip = true, a top-level logical-not gives the operand's text and
\* norm_flip = true, anything else gives the text as it is and
\* norm_flip = false; the flag is true exactly when the text was rewritten,
\* and the operand of the rewritten operator is not rewritten again.
C17_NormalizationRule ==
    \A a \in Injected :
        /\ C17_Rule(a.of, a.norm, a.flip)
        /\ a.flip <=> a.norm # C17_Text(a.of)

\* (!!p) was wrapped: its norm is !p, flipped once; p != 0 became p == 0; x > 0 stayed.
C17_Witness ==
    /\ \E a \in Injected : /\ a.of = ParenExpr(UnaryOperator("!", NotP))
                           /\ a.norm = <<"!", "p">>
                           /\ a.flip
    /\ \E a \in Injected : a.norm = <<"p", " ", "=", "=", " ", "0">> /\ a.flip
    /\ \E a \in Injected : a.norm = <<"x", " ", ">", " ", "0">> /\ ~a.flip

\* The cond events of the last execution of an instrumented condition.
ExecutedEvents == executed[1].instrumented.tr.events

\* The boolean of an expression as written, in the environment of the last execution.
AsWritten(E) == Bool(Eval(E, executed[1].vals, NoTrace).v)

RECURSIVE C19_Evaluated(_, _)
C19_Evaluated(E, vals) ==
    LET P == IgnoreParenImpCasts(E)
    IN  IF isLogicalOp(P)
          THEN LET decided == IF P.op = "&&" THEN Eval(P.lhs, vals, NoTrace).v = 0
                              ELSE Eval(P.lhs, vals, NoTrace).v # 0
               IN  C19_Evaluated(P.lhs, vals)
                     \o (IF decided THEN <<>> ELSE C19_Evaluated(P.rhs, vals))
        ELSE <<P>>

\* C19: the instrumented condition has the truth value of the original and
\* makes the same calls in the same order; for a condition A && B or
\* A || B there is one cond event per operand evaluated, with its value,
\* none for an operand the left side made unnecessary and none for the
\* whole expression.
C19_ShortCircuitPreserved ==
    executed # <<>> =>
        LET x == executed[1]
            Cond == SourceSites[x.site].stmt.cond
            ops == C19_Evaluated(Cond, x.vals)
        IN  /\ Bool(x.instrumented.v) = Bool(x.written.v)
            /\ x.instrumented.tr.called = x.written.tr.called
            /\ isLogicalOp(IgnoreParenImpCasts(Cond)) =>
                  /\ Len(ExecutedEvents) = Len(ops)
                  /\ \A n \in 1..Len(ops) :
                        /\ ExecutedEvents[n].of = ops[n]
                        /\ ExecutedEvents[n].value = AsWritten(ops[n])

\* a() && b() with a() false: one cond event, for a(), val = 0; b() was not called.
C19_Witness ==
    /\ executed # <<>>
    /\ SourceSites[executed[1].site].stmt.cond = BinaryOperator(CallA, "&&", CallB)
    /\ SourceSites[executed[1].site].stmt.k = "IfStmt"
    /\ executed[1].vals["a"] = 0
    /\ Len(ExecutedEvents) = 1
    /\ ExecutedEvents[1].of = CallA
    /\ ExecutedEvents[1].value = 0
    /\ executed[1].instrumented.tr.called = <<"a">>

\* C20: the func_hash of every probe is the hash of the canonical signature
\* of the innermost function definition around the condition, for a free
\* function and for a member function alike.
C20_FuncHashOfEnclosingFunction ==
    \A i \in 1..Len(RewrittenSites) :
        \A a \in LogCondsIn(RewrittenSites[i].stmt.cond) :
            a.func = hash64(buildSignature(SourceSites[i].decl[1]))

----------------------------------------------------------------------------
(* Claims about the injected call and the declaration it must match.       *)

\* The parameters of Runtime::LogCond in order; none has a default argument.
LogCondParameters ==
    <<"funcHash", "file", "line", "value", "condNorm", "condHash", "normFlip", "condKind">>

\* The arguments a probe is written with, in order: the text inserted
\* before the node up to "(bool)(", the node, and the text inserted after it.
InjectedArguments(a) ==
    <<[is |-> "func_hash", text |-> a.func], [is |-> "file", text |-> a.file],
      [is |-> "line", text |-> a.line], [is |-> "value", text |-> a.of],
      [is |-> "cond_norm", text |-> a.norm], [is |-> "cond_hash", text |-> a.hash],
      [is |-> "norm_flip", text |-> a.flip]>>

\* C21: every injected LogCond call supplies all arguments of the runtime's
\* LogCond in order (func_hash, file, line, value, cond_norm, cond_hash,
\* norm_flip, cond_kind): it has as many arguments as LogCond has
\* parameters, the last being the condition kind.
C21_AllArgumentsSupplied ==
    \A a \in Injected :
        /\ Len(InjectedArguments(a)) = Len(LogCondParameters)
        /\ InjectedArguments(a)[Len(InjectedArguments(a))].is = "cond_kind"

----------------------------------------------------------------------------
(* SpecJson: the event writers as text.  A text is the sequence of the     *)
(* pieces handed to the stream: a literal of the code is one piece, a      *)
(* string argument is written character by character.                      *)

MaxStr == 1

\* The characters of the string arguments.
ArgChars == {"a", "\"", "\\", "\n"}

RECURSIVE StringsUpTo(_)
StringsUpTo(n) ==
    IF n = 0 THEN {<<>>}
    ELSE StringsUpTo(n - 1)
           \cup {Append(s, c) : s \in {x \in StringsUpTo(n - 1) : Len(x) = n - 1}, c \in ArgChars}

\* A const char* argument: null or a string.
CStrings == {NullPtr} \cup {<<s>> : s \in StringsUpTo(MaxStr)}
\* p ? p : ""
OrEmpty(p) == IF p = NullPtr THEN <<>> ELSE p[1]

NowISO8601 == <<"2026-01-01T00:00:00Z">>

hash64_local(S) ==
    LET RECURSIVE Loop(_, _)
        Loop(h, i) ==
            IF i > Len(S) \/ h = <<>> THEN h
            ELSE Loop(MulU64(XorU64(h, U64(CodeOf(S[i]))), FNV_PRIME), i + 1)
    IN  Loop(FNV_OFFSET, 1)

\* WriteKV(k, string, first): the value goes to the stream as it is.
WriteKV(k, v, first) ==
    (IF first THEN <<>> ELSE <<",">>) \o <<"\"", k, "\"", ":", "\"">> \o v \o <<"\"">>

\* WriteKV(k, uint64_t, first, hex)
WriteKVInt(k, v, first, hex) ==
    (IF first THEN <<>> ELSE <<",">>) \o <<"\"", k, "\"", ":">>
      \o (IF hex THEN <<"\"">> \o toHex64(v) \o <<"\"">> ELSE to_string(v))

TestCtx(id, suite, name, fileName, lineNo) ==
    LET full == OrEmpty(suite) \o <<".">> \o OrEmpty(name)
    IN  [id |-> id, suite |-> OrEmpty(suite), name |-> OrEmpty(name), full |-> full,
         file |-> OrEmpty(fileName), line |-> lineNo, hash |-> hash64_local(full)]

EmitTestStartText(T) ==
    <<"{">> \o WriteKV("ts", NowISO8601, TRUE) \o WriteKV("type", <<"test_start">>, FALSE)
      \o WriteKVInt("test_id", T.id, FALSE, FALSE) \o WriteKV("suite", T.suite, FALSE)
      \o WriteKV("name", T.name, FALSE) \o WriteKV("full", T.full, FALSE)
      \o WriteKV("file", T.file, FALSE) \o WriteKVInt("line", T.line, FALSE, FALSE)
      \o WriteKVInt("hash", T.hash, FALSE, TRUE) \o <<"}", "\n">>

EmitTestEndText(T, status) ==
    <<"{">> \o WriteKV("ts", NowISO8601, TRUE) \o WriteKV("type", <<"test_end">>, FALSE)
      \o WriteKVInt("test_id", T.id, FALSE, FALSE)
      \o WriteKV("status", IF status = NullPtr THEN <<"UNKNOWN">> ELSE status[1], FALSE)
      \o <<"}", "\n">>

EmitAssertionText(testId, assertId, macro, fileName, lineNo, rawText) ==
    <<"{">> \o WriteKV("ts", NowISO8601, TRUE) \o WriteKV("type", <<"assertion">>, FALSE)
      \o WriteKVInt("test_id", testId, FALSE, FALSE)
      \o WriteKVInt("assert_id", assertId, FALSE, FALSE)
      \o WriteKV("macro", OrEmpty(macro), FALSE) \o WriteKV("file", OrEmpty(fileName), FALSE)
      \o WriteKVInt("line", lineNo, FALSE, FALSE)
      \o (IF rawText # NullPtr /\ rawText[1] # <<>>
            THEN WriteKV("raw", rawText[1], FALSE) ELSE <<>>)
      \o <<"}", "\n">>

EmitInvocationStartText(F) ==
    <<"{">> \o WriteKV("ts", NowISO8601, TRUE)
      \o WriteKV("type", <<"invocation_start">>, FALSE)
      \o WriteKVInt("test_id", F.testId, FALSE, FALSE)
      \o WriteKVInt("invocation_id", F.id, FALSE, FALSE)
      \o WriteKVInt("index", F.index, FALSE, FALSE)
      \o WriteKVInt("segment_id", F.segmentId, FALSE, FALSE)
      \o WriteKVInt("in_oracle", IF F.inOracle THEN 1 ELSE 0, FALSE, FALSE)
      \o (IF F.callFile # <<>> THEN WriteKV("call_file", F.callFile, FALSE) ELSE <<>>)
      \o (IF F.callLine # 0 THEN WriteKVInt("call_line", F.callLine, FALSE, FALSE) ELSE <<>>)
      \o (IF F.callExpr # <<>> THEN WriteKV("call_expr", F.callExpr, FALSE) ELSE <<>>)
      \o (IF F.targetFuncHash # U64Zero
            THEN WriteKVInt("target_func", F.targetFuncHash, FALSE, TRUE) ELSE <<>>)
      \o <<"}", "\n">>

EmitInvocationEndText(F, status, durationMs) ==
    <<"{">> \o WriteKV("ts", NowISO8601, TRUE) \o WriteKV("type", <<"invocation_end">>, FALSE)
      \o WriteKVInt("test_id", F.testId, FALSE, FALSE)
      \o WriteKVInt("invocation_id", F.id, FALSE, FALSE)
      \o WriteKVInt("segment_id", F.segmentId, FALSE, FALSE)
      \o WriteKV("status", IF status = NullPtr THEN <<"OK">> ELSE status[1], FALSE)
      \o WriteKVInt("duration_ms", durationMs, FALSE, FALSE) \o <<"}", "\n">>

\* WriteJson: the cond line.  T is TLTest and Stk TLInvStack.
WriteJsonText(funcHash, fileName, lineNo, value, condNorm, condHash, normFlip, condKind, T, Stk) ==
    <<"{", "\"", "ts", "\"", ":", "\"">> \o NowISO8601 \o <<"\"", ",">>
      \o <<"\"", "type", "\"", ":", "\"", "cond", "\"", ",">>
      \o (IF T # <<>> THEN <<"\"", "test_id", "\"", ":">> \o to_string(T[1].id) \o <<",">>
          ELSE <<>>)
      \o (IF Stk # <<>>
            THEN <<"\"", "invocation_id", "\"", ":">> \o to_string(Stk[Len(Stk)].id) \o <<",">>
          ELSE <<>>)
      \o <<"\"", "func", "\"", ":", "\"">> \o toHex64(funcHash) \o <<"\"", ",">>
      \o <<"\"", "cond_hash", "\"", ":", "\"">> \o toHex64(condHash) \o <<"\"", ",">>
      \o <<"\"", "file", "\"", ":", "\"">> \o OrEmpty(fileName) \o <<"\"", ",">>
      \o <<"\"", "line", "\"", ":">> \o to_string(lineNo) \o <<",">>
      \o <<"\"", "cond_norm", "\"", ":", "\"">> \o condNorm[1] \o <<"\"", ",">>
      \o <<"\"", "cond_kind", "\"", ":", "\"">> \o condKind[1] \o <<"\"", ",">>
      \o <<"\"", "val", "\"", ":">> \o (IF value THEN <<"1">> ELSE <<"0">>) \o <<",">>
      \o <<"\"", "norm_flip", "\"", ":">> \o (IF normFlip THEN <<"1">> ELSE <<"0">>)
      \o <<"}", "\n">>

\* The contexts a writer can find: a test, and an open frame of it.
SampleTest == TestCtx(1, <<<<"S">>>>, <<<<"n">>>>, <<<<"t.cpp">>>>, 3)
SampleFrame(callFile, callLine, callExpr, targetFuncHash) ==
    [id |-> 1, index |-> 0, testId |-> 1, depth |-> 1, targetFuncHash |-> targetFuncHash,
     callFile |-> OrEmpty(callFile), callLine |-> callLine, callExpr |-> OrEmpty(callExpr),
     segmentId |-> 0, inOracle |-> FALSE]

\* BeginTest writes the test_start line.
WriteTestStart ==
    /\ lastLine = <<>>
    /\ \E suite \in CStrings, name \in CStrings, fileName \in CStrings :
          lastLine' = EmitTestStartText(TestCtx(1, suite, name, fileName, 3))
    /\ UNCHANGED <<runtimeVars, staticVars, instrVars, testFile, wrappedFile, macroVars>>

\* EndTest writes the test_end line.
WriteTestEnd ==
    /\ lastLine = <<>>
    /\ \E status \in CStrings : lastLine' = EmitTestEndText(SampleTest, status)
    /\ UNCHANGED <<runtimeVars, staticVars, instrVars, testFile, wrappedFile, macroVars>>

\* AssertionBegin writes the assertion line.
WriteAssertion ==
    /\ lastLine = <<>>
    /\ \E macro \in CStrings, fileName \in CStrings, rawText \in CStrings :
          lastLine' = EmitAssertionText(1, 0, macro, fileName, 7, rawText)
    /\ UNCHANGED <<runtimeVars, staticVars, instrVars, testFile, wrappedFile, macroVars>>

\* BeginInvocation writes the invocation_start line.
WriteInvocationStart ==
    /\ lastLine = <<>>
    /\ \E callFile \in CStrings, callExpr \in CStrings, callLine \in {0, 12},
          target \in {U64Zero, FNV_PRIME} :
          lastLine' = EmitInvocationStartText(SampleFrame(callFile, callLine, callExpr, target))
    /\ UNCHANGED <<runtimeVars, staticVars, instrVars, testFile, wrappedFile, macroVars>>

\* EndInvocation writes the invocation_end line.
WriteInvocationEnd ==
    /\ lastLine = <<>>
    /\ \E status \in CStrings :
          lastLine' = EmitInvocationEndText(SampleFrame(NullPtr, 0, NullPtr, U64Zero), status, 0)
    /\ UNCHANGED <<runtimeVars, staticVars, instrVars, testFile, wrappedFile, macroVars>>

\* LogCond writes the cond line; cond_norm and cond_kind are strings.
WriteCond ==
    /\ lastLine = <<>>
    /\ \E fileName \in CStrings, condNorm \in CStrings \ {NullPtr},
          condKind \in CStrings \ {NullPtr}, value \in BOOLEAN,
          T \in {<<>>, <<SampleTest>>} :
          lastLine' = WriteJsonText(FNV_PRIME, fileName, 5, value, condNorm, U64Zero, ~value,
                                    condKind, T,
                                    IF T = <<>> THEN <<>>
                                    ELSE <<SampleFrame(NullPtr, 0, NullPtr, U64Zero)>>)
    /\ UNCHANGED <<runtimeVars, staticVars, instrVars, testFile, wrappedFile, macroVars>>

InitJson == Init /\ env = <<>>

NextJson ==
    \/ WriteTestStart
    \/ WriteTestEnd
    \/ WriteAssertion
    \/ WriteInvocationStart
    \/ WriteInvocationEnd
    \/ WriteCond

SpecJson == InitJson /\ [][NextJson]_vars

----------------------------------------------------------------------------
(* Claims about the text of the log.                                       *)

C22_Digits == {"0", "1", "2", "3", "4", "5", "6", "7", "8", "9"}
\* What may follow a backslash inside a JSON string (\u and its four digits aside).
C22_Escapes == {"\"", "\\", "/", "b", "f", "n", "r", "t"}
\* Characters that must not appear unescaped inside a JSON string.
C22_Control == {"\n"}

\* The position after the JSON string that starts at s[i], 0 if there is none.
\* i points at the opening quote.
RECURSIVE C22_StringBody(_, _)
C22_StringBody(s, j) ==
    IF j > Len(s) THEN 0
    ELSE IF s[j] = "\"" THEN j + 1
    ELSE IF s[j] = "\\"
      THEN IF j + 1 <= Len(s) /\ s[j + 1] \in C22_Escapes THEN C22_StringBody(s, j + 2) ELSE 0
    ELSE IF s[j] \in C22_Control THEN 0
    ELSE C22_StringBody(s, j + 1)

C22_String(s, i) == IF i <= Len(s) /\ s[i] = "\"" THEN C22_StringBody(s, i + 1) ELSE 0

RECURSIVE C22_Number(_, _, _)
C22_Number(s, i, n) ==
    IF i <= Len(s) /\ s[i] \in C22_Digits THEN C22_Number(s, i + 1, n + 1)
    ELSE IF n > 0 THEN i ELSE 0

C22_Value(s, i) ==
    IF i <= Len(s) /\ s[i] = "\"" THEN C22_String(s, i) ELSE C22_Number(s, i, 0)

\* The position after the members "key":value,... that start at s[i], 0 if malformed.
RECURSIVE C22_Members(_, _)
C22_Members(s, i) ==
    LET k == C22_String(s, i)
        v == IF k # 0 /\ k <= Len(s) /\ s[k] = ":" THEN C22_Value(s, k + 1) ELSE 0
    IN  IF v = 0 THEN 0
        ELSE IF v <= Len(s) /\ s[v] = "," THEN C22_Members(s, v + 1)
        ELSE v

\* One JSON object and the line feed that ends it, nothing else.
C22_WellFormedLine(s) ==
    /\ Len(s) >= 2 /\ s[1] = "{"
    /\ LET e == C22_Members(s, 2)
       IN  e # 0 /\ e + 1 = Len(s) /\ s[e] = "}" /\ s[e + 1] = "\n"

\* C22: whatever the string arguments of a tracer call are, a double quote,
\* a backslash or a newline among their characters included, the line the
\* call writes is one well-formed JSON object terminated by a line feed.
C22_LinesAreJson == lastLine # <<>> => C22_WellFormedLine(lastLine)

----------------------------------------------------------------------------
(* Claims about the state of a thread.                                     *)

\* The four thread_local objects of thread t.
C23_ThreadLocals(t) == <<TLTest[t], TLInvStack[t], TLInAssertion[t], TLSegmentId[t]>>

\* The thread that takes the step: the one whose position changes.
C23_Steps(t) == pc'[t] # pc[t]

\* The line the step starts, if it starts one.
C23_Started == IF Len(file') = Len(file) + 1 /\ IsOpenPiece(file'[Len(file')])
                 THEN <<file'[Len(file')]>> ELSE <<>>

\* C23: test context, invocation stack, in-assertion flag and segment
\* counter are per thread: a step of a tracer call by thread A leaves those
\* four of every other thread B as they were, and the segment_id and
\* in_oracle of an invocation_start that B writes are B's own counter and
\* flag, the counter being the number of AssertionEnd calls B made since
\* its last BeginTest or EndTest.
C23_PerThread ==
    [][ /\ \A a \in Threads : C23_Steps(a) =>
              \A b \in Threads \ {a} : C23_ThreadLocals(b)' = C23_ThreadLocals(b)
        /\ \A n \in 1..Len(C23_Started) :
              LET p == C23_Started[n]
              IN  p.ev.type = "invocation_start" =>
                    /\ p.ev.segment_id = TLSegmentId[p.thr]
                    /\ p.ev.segment_id = assertEndCalls[p.thr]
                    /\ p.ev.in_oracle = (IF TLInAssertion[p.thr] THEN 1 ELSE 0) ]_vars

\* t2 began a test and an invocation in it; t1 then began a test of its own:
\* t2 still has its test and its open frame.
C23_Witness ==
    /\ TLTest["t1"] # <<>> /\ TLTest["t2"] # <<>>
    /\ TLTest["t1"][1].id > TLTest["t2"][1].id
    /\ TLInvStack["t1"] = <<>>
    /\ Len(TLInvStack["t2"]) = 1
    /\ TLInvStack["t2"][1].testId = TLTest["t2"][1].id
    /\ \E n \in 1..Len(Events(file)) :
          Events(file)[n].type = "invocation_start" /\ Events(file)[n].thr = "t2"

----------------------------------------------------------------------------
(* SpecWrap: the invocation auto-wrapper (AutoWrapInvocations.cpp).  A     *)
(* text is the sequence of its characters.  A traversal returns the        *)
(* original text of the node (orig) and its text after the edits made so   *)
(* far (text); before is the file text in front of the node.               *)

MaxStmts == 1

BRINFO_CALL_NAME == <<"B", "R", "I", "N", "F", "O", "_", "C", "A", "L", "L">>
EXPECT_TRUE_NAME == <<"E", "X", "P", "E", "C", "T", "_", "T", "R", "U", "E">>

\* f(args): a CallExpr whose callee is a function, or (direct = FALSE) one
\* with no direct callee: a call through a pointer, an undeclared name.
DirectCall(callee, args) ==
    [k |-> "CallExpr", callee |-> callee, direct |-> TRUE, args |-> args]
IndirectCall(callee, args) ==
    [k |-> "CallExpr", callee |-> callee, direct |-> FALSE, args |-> args]
\* o.m(args): a CXXMemberCallExpr; its callee is the member function.
MemberCall(object, callee, args) ==
    [k |-> "CXXMemberCallExpr", object |-> object, callee |-> callee, direct |-> TRUE,
     args |-> args]
\* MACRO(sub): sub is written in the main file as the argument of a macro.
MacroArg(macro, sub) == [k |-> "MacroArg", macro |-> macro, sub |-> sub]
\* White space in front of an expression.
Spaces(n, sub) == [k |-> "Spaces", n |-> n, sub |-> sub]

RECURSIVE Blank(_)
Blank(n) == IF n = 0 THEN <<>> ELSE <<" ">> \o Blank(n - 1)

RECURSIVE rtrim(_)
rtrim(s) ==
    IF s # <<>> /\ s[Len(s)] \in {" ", "\n"} THEN rtrim(SubSeq(s, 1, Len(s) - 1)) ELSE s

endswith(s, suffix) ==
    Len(s) >= Len(suffix) /\ SubSeq(s, Len(s) - Len(suffix) + 1, Len(s)) = suffix

\* The file text in front of the call, up to 48 characters of it, ends with BRINFO_CALL(
isAlreadyWrapped(before) ==
    LET Off      == Len(before)
        Lookback == IF Off > 48 THEN 48 ELSE Off
        Pre      == rtrim(SubSeq(before, Off - Lookback + 1, Off))
    IN  endswith(Pre, BRINFO_CALL_NAME \o <<"(">>)

\* wrapCall: Curr is the rewritten text of the call's range; the result is
\* the text of that range afterwards.  The allow list is the set of callee
\* names the regular expression matches.
wrapCall(CE, before, st, Curr) ==
    IF st.opts.OnlyTests /\ ~st.InTestBody THEN Curr
    ELSE IF ~CE.direct THEN Curr
    ELSE IF st.opts.Allow # <<>> /\ CE.callee \notin st.opts.Allow[1] THEN Curr
    ELSE IF st.macro # <<>> /\ (st.macro = BRINFO_CALL_NAME \/ ~st.opts.WrapMacroArgs) THEN Curr
    ELSE IF isAlreadyWrapped(before) THEN Curr
    ELSE BRINFO_CALL_NAME \o <<"(">> \o Curr \o <<")">>

RECURSIVE CallWrapTraverseStmt(_, _, _)
RECURSIVE TraverseArgs(_, _, _, _)
RECURSIVE TraverseCallExpr(_, _, _)

\* The arguments of a call, left to right.
TraverseArgs(args, i, before, st) ==
    IF i > Len(args) THEN [orig |-> <<>>, text |-> <<>>]
    ELSE LET sep  == IF i > 1 THEN <<",">> ELSE <<>>
             a    == CallWrapTraverseStmt(args[i], before \o sep, st)
             rest == TraverseArgs(args, i + 1, before \o sep \o a.orig, st)
         IN  [orig |-> sep \o a.orig \o rest.orig, text |-> sep \o a.text \o rest.text]

\* Post-order: the children first, then this call.
TraverseCallExpr(CE, before, st) ==
    LET head == CE.callee \o <<"(">>
        args == TraverseArgs(CE.args, 1, before \o head, st)
    IN  [orig |-> head \o args.orig \o <<")">>,
         text |-> wrapCall(CE, before, st, head \o args.text \o <<")">>)]

\* RecursiveASTVisitor::TraverseStmt calls the Traverse function of the
\* node's own class; the visitor overrides that of CallExpr only.
CallWrapTraverseStmt(E, before, st) ==
    IF E.k = "DeclRefExpr" THEN [orig |-> <<E.name>>, text |-> <<E.name>>]
    ELSE IF E.k = "CallExpr" THEN TraverseCallExpr(E, before, st)
    ELSE IF E.k = "CXXMemberCallExpr"
      THEN LET o    == CallWrapTraverseStmt(E.object, before, st)
               head == <<".">> \o E.callee \o <<"(">>
               args == TraverseArgs(E.args, 1, before \o o.orig \o head, st)
           IN  [orig |-> o.orig \o head \o args.orig \o <<")">>,
                text |-> o.text \o head \o args.text \o <<")">>]
    ELSE IF E.k = "MacroArg"
      THEN LET head == E.macro \o <<"(">>
               s    == CallWrapTraverseStmt(E.sub, before \o head, [st EXCEPT !.macro = E.macro])
           IN  [orig |-> head \o s.orig \o <<")">>, text |-> head \o s.text \o <<")">>]
    ELSE LET s == CallWrapTraverseStmt(E.sub, before \o Blank(E.n), st)
         IN  [orig |-> Blank(E.n) \o s.orig, text |-> Blank(E.n) \o s.text]

\* The statements of a body.
RECURSIVE TraverseBody(_, _, _, _)
TraverseBody(stmts, i, before, st) ==
    IF i > Len(stmts) THEN [orig |-> <<>>, text |-> <<>>]
    ELSE LET s    == CallWrapTraverseStmt(stmts[i], before, st)
             rest == TraverseBody(stmts, i + 1, before \o s.orig \o <<";">>, st)
         IN  [orig |-> s.orig \o <<";">> \o rest.orig, text |-> s.text \o <<";">> \o rest.text]

isGTestTestBody(FD, opts) ==
    IF FD.k # "CXXMethodDecl" \/ FD.Name # "TestBody" THEN FALSE
    ELSE IF opts.MainFileOnly /\ ~FD.inMainFile THEN FALSE
    ELSE IF FD.overrides THEN TRUE
    ELSE IF FD.derives THEN TRUE
    ELSE endswith(FD.ClassName, <<"_", "T", "e", "s", "t">>)

\* TraverseFunctionDecl and TraverseCXXMethodDecl: the same code twice.
TraverseCXXMethodDecl(MD, opts) ==
    LET InTestBody == opts.OnlyTests /\ isGTestTestBody(MD, opts)
    IN  TraverseBody(MD.stmts, 1, <<"{">>,
                     [InTestBody |-> InTestBody, macro |-> <<>>, opts |-> opts])

CallWrapTraverseFunctionDecl(FD, opts) ==
    LET InTestBody == opts.OnlyTests /\ isGTestTestBody(FD, opts)
    IN  TraverseBody(FD.stmts, 1, <<"{">>,
                     [InTestBody |-> InTestBody, macro |-> <<>>, opts |-> opts])

CallWrapTraverseDecl(D, opts) ==
    IF D.k = "CXXMethodDecl" THEN TraverseCXXMethodDecl(D, opts)
    ELSE CallWrapTraverseFunctionDecl(D, opts)

HeaderBlock ==
    <<"#define BRINFO_AUTO_WRAP_GTEST\n", "#include \"brinfo/GTestAutoWrap.h\"\n",
      "#include \"brinfo/GTestSupport.h\"\n\n">>

\* CallWrapConsumer::HandleTranslationUnit: the bodies, then the header block.
CallWrapHandleTranslationUnit(F, opts) ==
    LET bodies == [i \in 1..Len(F.decls) |-> CallWrapTraverseDecl(F.decls[i], opts)]
        DidModifyMainFile ==
            \E i \in 1..Len(bodies) : bodies[i].text # bodies[i].orig /\ F.decls[i].inMainFile
    IN  [header |-> IF DidModifyMainFile /\ ~F.hasMarker THEN HeaderBlock ELSE <<>>,
         bodies |-> [i \in 1..Len(bodies) |-> bodies[i].text]]

----------------------------------------------------------------------------
(* The files given to the wrapper. *)

VarX == DeclRefExpr("x")
VarO == DeclRefExpr("o")
Fx == DirectCall(<<"f">>, <<VarX>>)
Gx == DirectCall(<<"g">>, <<VarX>>)
FGx == DirectCall(<<"f">>, <<Gx>>)

TestExprs ==
    { VarX, Fx, FGx,
      DirectCall(<<"f">>, <<Gx, DirectCall(<<"h">>, <<VarX>>)>>),
      IndirectCall(<<"p">>, <<Gx>>),
      MemberCall(VarO, <<"m">>, <<VarX>>),
      MemberCall(VarO, <<"m">>, <<Gx>>),
      DirectCall(<<"f">>, <<MemberCall(VarO, <<"m">>, <<VarX>>)>>),
      MacroArg(EXPECT_TRUE_NAME, FGx),
      MacroArg(BRINFO_CALL_NAME, FGx),
      IndirectCall(BRINFO_CALL_NAME, <<FGx>>),
      IndirectCall(BRINFO_CALL_NAME, <<Spaces(2, Fx)>>) }

RECURSIVE StmtLists(_)
StmtLists(n) ==
    IF n = 0 THEN {<<>>}
    ELSE {<<e>> \o s : e \in TestExprs, s \in StmtLists(n - 1)}

Method(Name, overrides, derives, ClassName, stmts) ==
    [k |-> "CXXMethodDecl", Name |-> Name, overrides |-> overrides, derives |-> derives,
     ClassName |-> ClassName, inMainFile |-> TRUE, stmts |-> stmts]
Function(Name, stmts) ==
    [k |-> "FunctionDecl", Name |-> Name, overrides |-> FALSE, derives |-> FALSE,
     ClassName |-> <<>>, inMainFile |-> TRUE, stmts |-> stmts]

A_Test == <<"A", "_", "T", "e", "s", "t">>

\* TEST(A, B) { stmts }, a TestBody found by its class name only, a method
\* of another name, a free function.
DeclsOf(stmts) ==
    { Method("TestBody", TRUE, TRUE, A_Test, stmts),
      Method("TestBody", FALSE, FALSE, A_Test, stmts),
      Method("SetUp", FALSE, TRUE, A_Test, stmts),
      Function("helper", stmts) }

TestFiles ==
    {[hasMarker |-> m, decls |-> <<d>>] :
        m \in BOOLEAN, d \in UNION {DeclsOf(s) : s \in StmtLists(MaxStmts)}}

WrapOptions ==
    [OnlyTests : BOOLEAN, MainFileOnly : {TRUE}, WrapMacroArgs : BOOLEAN,
     Allow : {<<>>, <<{<<"f">>, <<"m">>}>>}]

\* One run of the tool over one file.
AutoWrap ==
    /\ testFile = <<>>
    /\ \E F \in TestFiles, opts \in WrapOptions :
          /\ testFile' = <<F, opts>>
          /\ wrappedFile' = CallWrapHandleTranslationUnit(F, opts)
    /\ UNCHANGED <<runtimeVars, staticVars, instrVars, lastLine, macroVars>>

InitWrap == Init /\ env = <<>>

NextWrap == AutoWrap

SpecWrap == InitWrap /\ [][NextWrap]_vars

----------------------------------------------------------------------------
(* Claims about the call wrapper.                                          *)

\* A call the wrapper is to wrap: a direct call, of an allowed callee,
\* written outside macro arguments (or inside those of a macro other than
\* BRINFO_CALL when the option asks for it), and not itself the argument of
\* a BRINFO_CALL( of the file text.
C24_Eligible(E, st, isArg) ==
    /\ E.k \in {"CallExpr", "CXXMemberCallExpr"}
    /\ E.direct
    /\ st.opts.Allow # <<>> => E.callee \in st.opts.Allow[1]
    /\ st.macro # <<>> => st.opts.WrapMacroArgs /\ st.macro # BRINFO_CALL_NAME
    /\ ~isArg

\* The text in which every eligible call stands in one BRINFO_CALL( ) of
\* its own, the inner ones inside the outer ones.
RECURSIVE C24_Expected(_, _, _)
C24_Expected(E, st, isArg) ==
    IF E.k = "DeclRefExpr" THEN <<E.name>>
    ELSE IF E.k = "MacroArg"
      THEN E.macro \o <<"(">>
             \o C24_Expected(E.sub, [st EXCEPT !.macro = E.macro], E.macro = BRINFO_CALL_NAME)
             \o <<")">>
    ELSE IF E.k = "Spaces" THEN Blank(E.n) \o C24_Expected(E.sub, st, isArg)
    ELSE LET RECURSIVE Args(_)
             Args(i) ==
                 IF i > Len(E.args) THEN <<>>
                 ELSE (IF i > 1 THEN <<",">> ELSE <<>>)
                        \o C24_Expected(E.args[i], st, i = 1 /\ E.callee = BRINFO_CALL_NAME)
                        \o Args(i + 1)
             inner ==
                 (IF E.k = "CXXMemberCallExpr"
                    THEN C24_Expected(E.object, st, FALSE) \o <<".">> ELSE <<>>)
                   \o E.callee \o <<"(">> \o Args(1) \o <<")">>
         IN  IF C24_Eligible(E, st, isArg)
               THEN BRINFO_CALL_NAME \o <<"(">> \o inner \o <<")">>
             ELSE inner

RECURSIVE C24_ExpectedBody(_, _, _)
C24_ExpectedBody(stmts, i, st) ==
    IF i > Len(stmts) THEN <<>>
    ELSE C24_Expected(stmts[i], st, FALSE) \o <<";">> \o C24_ExpectedBody(stmts, i + 1, st)

\* C24: in one run of the wrapper every eligible direct call of a test body
\* ends up inside exactly one BRINFO_CALL( ) of its own, inner calls first,
\* so that f(g(x)) becomes BRINFO_CALL(f(BRINFO_CALL(g(x)))), and a call
\* that is already the argument of a BRINFO_CALL( in the file text is not
\* wrapped again.
C24_EveryCallWrappedOnce ==
    testFile # <<>> =>
        LET F == testFile[1]
            opts == testFile[2]
        IN  \A i \in 1..Len(F.decls) :
                (opts.OnlyTests => isGTestTestBody(F.decls[i], opts)) =>
                    wrappedFile.bodies[i] =
                        C24_ExpectedBody(F.decls[i].stmts, 1,
                                         [macro |-> <<>>, opts |-> opts])

----------------------------------------------------------------------------
(* SpecCall: BRINFO_CALL(expr) of GTestSupport.h, evaluated by a test      *)
(* program on one thread.  The macro is a lambda: BeginInvocation, then an *)
(* InvocationScopeGuard whose destructor calls EndInvocation, then         *)
(* return (expr).  evals[t] holds the evaluations in progress with the     *)
(* place each has reached: "expr" (expr is being evaluated), "guard" (expr *)
(* returned, the guard is about to be destroyed) or "unwind" (expr threw,  *)
(* the guard is about to be destroyed by the unwinding).                   *)

\* The invocation depth of a stack.
DepthOf(stk) == IF stk = <<>> THEN 0 ELSE Back(stk).depth

\* An exception leaves an evaluation: it is thrown inside the expr of the enclosing one.
Propagate(stk) == IF stk = <<>> THEN stk ELSE [stk EXCEPT ![Len(stk)].phase = "unwind"]

\* Code of the test program runs: outside every BRINFO_CALL, or inside an expr.
InCode(t) == IF evals[t] = <<>> THEN TRUE ELSE Back(evals[t]).phase = "expr"

\* The lines an evaluation may still have to write fit into the log.
Room == Len(Events(file)) + 2 <= MaxLog

\* BRINFO_CALL( is reached: the lambda calls BeginInvocation.  If the call
\* throws, no guard exists yet and expr is not evaluated.
MacroBegin(t) ==
    /\ InCode(t)
    /\ Len(evals[t]) < MaxDepth
    /\ Room
    /\ Perform(t, "BeginInvocation", NoArg)
    /\ IF exc'[t]
         THEN /\ evals' = [evals EXCEPT ![t] = Propagate(@)]
              /\ finished' = <<[before |-> DepthOf(TLInvStack[t]),
                                after |-> DepthOf(TLInvStack'[t]),
                                begins |-> 1, beginThrew |-> TRUE, exprEvaluated |-> FALSE,
                                exprThrew |-> FALSE, ends |-> 0]>>
         ELSE /\ evals' = [evals EXCEPT ![t] =
                              Append(@, [before |-> DepthOf(TLInvStack[t]), phase |-> "expr"])]
              /\ finished' = finished

\* The instrumented code under test logs a condition while expr is evaluated.
ExprLogCond(t) ==
    /\ evals[t] # <<>>
    /\ InCode(t)
    /\ Room
    /\ \E v \in BOOLEAN : Perform(t, "LogCond", v)
    /\ UNCHANGED macroVars

\* return (expr);
ExprReturns(t) ==
    /\ evals[t] # <<>>
    /\ InCode(t)
    /\ evals' = [evals EXCEPT ![t][Len(evals[t])].phase = "guard"]
    /\ UNCHANGED <<runtimeVars, staticVars, instrVars, toolVars, finished>>

\* expr throws.
ExprThrows(t) ==
    /\ evals[t] # <<>>
    /\ InCode(t)
    /\ evals' = [evals EXCEPT ![t][Len(evals[t])].phase = "unwind"]
    /\ UNCHANGED <<runtimeVars, staticVars, instrVars, toolVars, finished>>

\* ~InvocationScopeGuard: EndInvocation(), on return and on unwinding alike.
InvocationScopeGuard(t) ==
    /\ evals[t] # <<>>
    /\ ~InCode(t)
    /\ Perform(t, "EndInvocation", NoArg)
    /\ LET e == Back(evals[t])
       IN  /\ evals' = [evals EXCEPT ![t] =
                           IF e.phase = "unwind" THEN Propagate(PopBack(@)) ELSE PopBack(@)]
           /\ finished' = <<[before |-> e.before, after |-> DepthOf(TLInvStack'[t]),
                             begins |-> 1, beginThrew |-> FALSE, exprEvaluated |-> TRUE,
                             exprThrew |-> e.phase = "unwind", ends |-> 1]>>

\* Outside every BRINFO_CALL the program initialises the tracer, begins and ends tests.
ProgramInit(t) == evals[t] = <<>> /\ CallInit(t)
ProgramBeginTest(t) == evals[t] = <<>> /\ CallBeginTest(t)
ProgramEndTest(t) == evals[t] = <<>> /\ CallEndTest(t)

NextCall ==
    \E t \in MainThread :
        \/ ProgramInit(t)
        \/ ProgramBeginTest(t)
        \/ ProgramEndTest(t)
        \/ MacroBegin(t)
        \/ ExprLogCond(t)
        \/ ExprReturns(t)
        \/ ExprThrows(t)
        \/ InvocationScopeGuard(t)

SpecCall == Init /\ [][NextCall]_vars

----------------------------------------------------------------------------
(* Claims about BRINFO_CALL.                                               *)

\* C25: every evaluation of BRINFO_CALL(expr) makes exactly one
\* BeginInvocation call, then evaluates expr, then makes exactly one
\* EndInvocation call, whether expr returns or throws, and leaves the
\* thread's invocation depth as it found it, whatever the nesting.
C25_BeginAndEndOnce ==
    finished # <<>> =>
        /\ finished[1].begins = 1
        /\ finished[1].exprEvaluated
        /\ finished[1].ends = 1
        /\ finished[1].after = finished[1].before

----------------------------------------------------------------------------
(* Claims about which expressions get a probe.                             *)

\* The whole condition of a site: of the statement, or of the ternary.
C26_Whole(S) == IF S.k = "ExprStmt" THEN S.cond.cond ELSE S.cond

\* E has a && or a || somewhere in its expression tree.
RECURSIVE C26_ContainsLogical(_)
C26_ContainsLogical(E) ==
    IF E.k \in {"DeclRefExpr", "IntegerLiteral", "CallExpr"} THEN FALSE
    ELSE IF E.k \in {"ParenExpr", "ImplicitCastExpr", "UnaryOperator"}
      THEN C26_ContainsLogical(E.sub)
    ELSE IF E.k = "BinaryOperator"
      THEN isLogicalOp(E) \/ C26_ContainsLogical(E.lhs) \/ C26_ContainsLogical(E.rhs)
    ELSE C26_ContainsLogical(E.cond) \/ C26_ContainsLogical(E.t) \/ C26_ContainsLogical(E.f)

\* The operands of the logical operators of E that are not logical
\* operators themselves, outermost first, left to right.
RECURSIVE C26_Operands(_)
C26_Operand(X) ==
    IF isLogicalOp(IgnoreParenImpCasts(X)) THEN <<>> ELSE <<IgnoreParenImpCasts(X)>>
C26_Operands(E) ==
    IF E.k \in {"DeclRefExpr", "IntegerLiteral", "CallExpr"} THEN <<>>
    ELSE IF E.k \in {"ParenExpr", "ImplicitCastExpr", "UnaryOperator"} THEN C26_Operands(E.sub)
    ELSE IF E.k = "BinaryOperator"
      THEN (IF isLogicalOp(E) THEN C26_Operand(E.lhs) ELSE <<>>) \o C26_Operands(E.lhs)
             \o (IF isLogicalOp(E) THEN C26_Operand(E.rhs) ELSE <<>>) \o C26_Operands(E.rhs)
    ELSE C26_Operands(E.cond) \o C26_Operands(E.t) \o C26_Operands(E.f)

\* The probes of a rewritten expression, outermost first, left to right.
RECURSIVE C26_Probes(_)
C26_Probes(E) ==
    IF E.k \in {"DeclRefExpr", "IntegerLiteral", "CallExpr"} THEN <<>>
    ELSE IF E.k \in {"ParenExpr", "ImplicitCastExpr", "UnaryOperator"} THEN C26_Probes(E.sub)
    ELSE IF E.k = "BinaryOperator" THEN C26_Probes(E.lhs) \o C26_Probes(E.rhs)
    ELSE IF E.k = "ConditionalOperator"
      THEN C26_Probes(E.cond) \o C26_Probes(E.t) \o C26_Probes(E.f)
    ELSE <<E.args>> \o C26_Probes(E.sub)

C26_IsOperandProbe(a) == a.by = "VisitBinaryOperator"
C26_IsWholeProbe(a) == a.by # "VisitBinaryOperator"
C26_Of(probes) == [n \in 1..Len(probes) |-> probes[n].of]

\* C26: the whole condition of an if, while, for, do-while or ternary gets
\* a probe if and only if it has no && and no || anywhere in its expression
\* tree; when it has one, the whole is left alone and each operand that is
\* not itself a logical operator is wrapped exactly once.
C26_WholeOrOperands ==
    \A i \in 1..Len(RewrittenSites) :
        LET E      == C26_Whole(SourceSites[i].stmt)
            probes == C26_Probes(RewrittenSites[i].stmt.cond)
            whole  == SelectSeq(probes, C26_IsWholeProbe)
        IN  /\ Len(whole) <= 1
            /\ Len(whole) = 1 <=> ~C26_ContainsLogical(E)
            /\ \A n \in 1..Len(whole) : whole[n].of = E
            /\ C26_ContainsLogical(E) =>
                  C26_Of(SelectSeq(probes, C26_IsOperandProbe)) = C26_Operands(E)

----------------------------------------------------------------------------
(* SpecAssert: assertions of a gtest program with GTestListener registered *)
(* and the assertion macros redefined by GTestAutoWrap.h.  A redefined     *)
(* macro is AssertionBegin, an AssertionScopeGuard whose destructor calls  *)
(* AssertionEnd, and the predicate form of the assertion as body.  gtest   *)
(* reports a failed assertion, and SUCCEED(), ADD_FAILURE() and the like,  *)
(* to the listeners from inside the assertion, before it returns.  An      *)
(* entry of evals[t] is an assertion in progress, at "body", "report"      *)
(* (gtest is about to call OnTestPartResult), "listener" (OnTestPartResult *)
(* has called AssertionBegin) or "guard".                                  *)

\* The assertion events of a log.
AssertionEvents(f) == Len(OfType(Events(f), "assertion"))

NewAssertion(t, macro, phase, begins) ==
    [macro |-> macro, phase |-> phase, testActive |-> TLTest[t] # <<>>,
     segment |-> TLSegmentId[t], events |-> AssertionEvents(file),
     begins |-> begins, ends |-> 0, failed |-> FALSE]

\* What an evaluation that ends leaves in the history.
Ended(t, e, ends) ==
    <<[macro |-> e.macro, testActive |-> e.testActive, failed |-> e.failed,
       begins |-> e.begins, ends |-> ends,
       events |-> AssertionEvents(file') - e.events,
       segments |-> TLSegmentId'[t] - e.segment]>>

\* An assertion starts within the bounds of the model.
AssertRoom(t) == Room /\ assertEndCalls[t] < MaxSeg

\* BRINFO__ASSERTION_WRAP: AssertionBegin, then the guard.  If the call
\* throws, there is no guard and the body is not evaluated.
WrappedAssertionBegin(t) ==
    /\ evals[t] = <<>>
    /\ AssertRoom(t)
    /\ Perform(t, "AssertionBegin", NoArg)
    /\ IF exc'[t]
         THEN /\ evals' = evals
              /\ finished' = Ended(t, NewAssertion(t, "EXPECT_TRUE", "body", 1), 0)
         ELSE /\ evals' = [evals EXCEPT ![t] = <<NewAssertion(t, "EXPECT_TRUE", "body", 1)>>]
              /\ finished' = finished

\* The predicate holds: gtest reports nothing.
AssertionPasses(t) ==
    /\ evals[t] # <<>>
    /\ evals[t][1].phase = "body"
    /\ evals' = [evals EXCEPT ![t][1].phase = "guard"]
    /\ UNCHANGED <<runtimeVars, staticVars, instrVars, toolVars, finished>>

\* The predicate fails: gtest reports a TestPartResult to the listeners.
AssertionFails(t) ==
    /\ evals[t] # <<>>
    /\ evals[t][1].phase = "body"
    /\ evals' = [evals EXCEPT ![t][1].phase = "report", ![t][1].failed = TRUE]
    /\ UNCHANGED <<runtimeVars, staticVars, instrVars, toolVars, finished>>

\* SUCCEED(), ADD_FAILURE(), GTEST_SKIP(): a TestPartResult with no redefined macro around it.
UnwrappedResult(t) ==
    /\ evals[t] = <<>>
    /\ AssertRoom(t)
    /\ evals' = [evals EXCEPT ![t] = <<NewAssertion(t, "SUCCEED", "report", 0)>>]
    /\ UNCHANGED <<runtimeVars, staticVars, instrVars, toolVars, finished>>

\* GTestListener::OnTestPartResult, first call: AssertionBegin(macro, file, line, summary).
OnTestPartResultBegin(t) ==
    /\ evals[t] # <<>>
    /\ evals[t][1].phase = "report"
    /\ Perform(t, "AssertionBegin", NoArg)
    /\ evals' = [evals EXCEPT ![t][1].phase = "listener", ![t][1].begins = @ + 1]
    /\ finished' = finished

\* GTestListener::OnTestPartResult, second call: AssertionEnd().
OnTestPartResultEnd(t) ==
    /\ evals[t] # <<>>
    /\ evals[t][1].phase = "listener"
    /\ Perform(t, "AssertionEnd", NoArg)
    /\ LET e == evals[t][1]
       IN  IF e.macro = "SUCCEED"
             THEN /\ evals' = [evals EXCEPT ![t] = <<>>]
                  /\ finished' = Ended(t, e, e.ends + 1)
             ELSE /\ evals' = [evals EXCEPT ![t][1].phase = "guard", ![t][1].ends = @ + 1]
                  /\ finished' = finished

\* ~AssertionScopeGuard: AssertionEnd().
AssertionScopeGuard(t) ==
    /\ evals[t] # <<>>
    /\ evals[t][1].phase = "guard"
    /\ Perform(t, "AssertionEnd", NoArg)
    /\ evals' = [evals EXCEPT ![t] = <<>>]
    /\ finished' = Ended(t, evals[t][1], evals[t][1].ends + 1)

NextAssert ==
    \E t \in MainThread :
        \/ ProgramInit(t)
        \/ ProgramBeginTest(t)
        \/ ProgramEndTest(t)
        \/ WrappedAssertionBegin(t)
        \/ AssertionPasses(t)
        \/ AssertionFails(t)
        \/ UnwrappedResult(t)
        \/ OnTestPartResultBegin(t)
        \/ OnTestPartResultEnd(t)
        \/ AssertionScopeGuard(t)

SpecAssert == Init /\ [][NextAssert]_vars

----------------------------------------------------------------------------
(* Claims about the assertion macros and the listener.                     *)

\* C27: with the redefined assertion macros and the listener both active,
\* OnTestPartResult adds an assertion only for what the redefined macros
\* did not capture: every evaluation of a wrapped assertion in a test,
\* passing or failing, writes exactly one assertion event, makes exactly
\* one AssertionBegin and one AssertionEnd call, and advances the segment
\* counter by exactly one.
C27_OneAssertionPerEvaluation ==
    finished # <<>> /\ finished[1].macro = "EXPECT_TRUE" /\ finished[1].testActive =>
        /\ finished[1].events = 1
        /\ finished[1].begins = 1
        /\ finished[1].ends = 1
        /\ finished[1].segments = 1

----------------------------------------------------------------------------
(* Claims about the test an invocation belongs to.                         *)

\* The open frame of a thread belongs to the thread's active test.
C28_FrameOfActiveTest(t) ==
    TLInvStack[t] # <<>> =>
        /\ TLTest[t] # <<>>
        /\ Back(TLInvStack[t]).testId = TLTest[t][1].id

\* Event i names an invocation and a test, and the invocation was started under that test.
C28_StartedUnderItsTest(ev, i) ==
    (/\ ev[i].type \in {"invocation_end", "cond"}
     /\ "test_id" \in DOMAIN ev[i]
     /\ "invocation_id" \in DOMAIN ev[i])
    => \E j \in 1..(i - 1) :
          /\ ev[j].type = "invocation_start"
          /\ ev[j].invocation_id = ev[i].invocation_id
          /\ ev[j].test_id = ev[i].test_id

\* C28: in every reachable state an open invocation frame implies an
\* active test whose id is the frame's test id, and so every
\* invocation_end and cond event that carries both ids names an invocation
\* started under the test named by its test_id, whatever the sequence of
\* BeginTest, EndTest, BeginInvocation, EndInvocation and LogCond calls.
C28_InvocationWithinItsTest ==
    /\ \A t \in MainThread : C28_FrameOfActiveTest(t)
    /\ \A i \in 1..Len(Events(file)) : C28_StartedUnderItsTest(Events(file), i)

----------------------------------------------------------------------------
(* Claims about the two events of an invocation.                           *)

\* Event i, an invocation_end, follows the invocation_start of its
\* invocation in its thread's output and repeats its test and segment.
C29_EndAfterItsStart(ev, i) ==
    ev[i].type = "invocation_end" =>
        \E j \in 1..(i - 1) :
            /\ ev[j].type = "invocation_start"
            /\ ev[j].thr = ev[i].thr
            /\ ev[j].invocation_id = ev[i].invocation_id
            /\ ev[j].test_id = ev[i].test_id
            /\ ev[j].segment_id = ev[i].segment_id

\* No two events of the same type name the same invocation.
C29_OneStartOneEnd(ev) ==
    \A i, j \in 1..Len(ev) :
        (/\ i # j
         /\ ev[i].type \in {"invocation_start", "invocation_end"}
         /\ ev[j].type = ev[i].type)
        => ev[j].invocation_id # ev[i].invocation_id

\* C29: every invocation_end is preceded in its thread's output by the
\* invocation_start with the same invocation_id and carries the test_id
\* and segment_id captured at that start, AssertionEnd calls in between
\* notwithstanding; no invocation_id has two starts or two ends.
C29_EndMatchesStart ==
    /\ \A i \in 1..Len(Events(file)) : C29_EndAfterItsStart(Events(file), i)
    /\ C29_OneStartOneEnd(Events(file))

\* An invocation has ended in a later segment than the one it started in.
C29_Witness ==
    \E t \in MainThread :
        /\ TLTest[t] # <<>>
        /\ \E i \in 1..Len(Events(file)) :
              /\ Events(file)[i].type = "invocation_end"
              /\ Events(file)[i].thr = t
              /\ Events(file)[i].test_id = TLTest[t][1].id
              /\ Events(file)[i].segment_id < TLSegmentId[t]

----------------------------------------------------------------------------
(* Claims about termination of the public APIs.                            *)

\* A thread holds the mutex only between its lock_guard and its return.
C30_HeldInsideCall(t) == mutex = t => pc[t] \in {"cs", "line", "ret"}

\* A thread inside a call is at the call's own steps: an entry point calls
\* no entry point, and the once-guard is running only while its callable is.
C30_NoNestedCall(t) ==
    /\ pc[t] = "init" => once = "running" /\ mutex # t
    /\ pc[t] = "once" => mutex # t

\* C30: under fair scheduling every call of a public API (Init, BeginTest,
\* EndTest, AssertionBegin, AssertionEnd, BeginInvocation, EndInvocation,
\* LogCond) by any thread eventually comes back to its caller; the mutex
\* is released on every path before that, and is held only inside the
\* body of one call, so no thread waits forever for the mutex or for the
\* once-guard.
C30_EveryCallReturns ==
    /\ [](\A t \in Threads : C30_HeldInsideCall(t) /\ C30_NoNestedCall(t))
    /\ \A t \in Threads : (pc[t] # "idle") ~> (pc[t] = "idle" /\ mutex # t)

\* A thread waits for the mutex that the other thread is about to release.
C30_Witness ==
    \E t, u \in Threads :
        /\ pc[t] = "lock"
        /\ mutex = u
        /\ pc[u] = "ret"

====
